---------------------------- MODULE Spec2Model ----------------------------
(***************************************************************************)
(* GPS speedometer telemetry engine (src/unnamed/part_000).                *)
(*                                                                         *)
(* Numbers.  JavaScript numbers are IEEE doubles; the model keeps them as  *)
(* integers in fixed units, and the two non-finite values the handlers can *)
(* see (null and NaN) as two reserved integers outside every range:        *)
(*   position.timestamp, timestampSeconds, elapsed times : milliseconds    *)
(*   distances (delta, total, covered, remaining)        : millimetres     *)
(*   speeds                                              : 1e-4 m/s        *)
(*   accelerations                                       : 1e-4 m/s^2      *)
(*   latitude, longitude, heading                        : microdegrees    *)
(* A division rounds toward zero where the double would keep a fraction.   *)
(* The trigonometry of computeTravelDelta is carried out in decimal        *)
(* floating point with an 8-digit mantissa (Float* below).                 *)
(***************************************************************************)
EXTENDS Integers, Sequences, FiniteSets, TLC

null == -2147483647
NaN == -2147483646

\* Number.isFinite(x)
IsFinite(x) == x # null /\ x # NaN

Abs(x) == IF x < 0 THEN -x ELSE x
Max(a, b) == IF a >= b THEN a ELSE b
Min(a, b) == IF a <= b THEN a ELSE b

(***************************************************************************)
(* Arithmetic kernel: a*b/d without leaving the 32-bit integers.           *)
(***************************************************************************)
RECURSIVE MulDivQR(_, _, _)
\* <<q, r>> with a*b = q*d + r and 0 <= r < d, for a, b >= 0 and 0 < d < 7*10^8
MulDivQR(a, b, d) ==
  IF b = 0 THEN <<0, 0>>
  ELSE LET h == MulDivQR(a, b \div 2, d)
           r2 == 2 * h[2] + (IF b % 2 = 1 THEN a % d ELSE 0)
           q2 == 2 * h[1] + (IF b % 2 = 1 THEN a \div d ELSE 0)
       IN <<q2 + (r2 \div d), r2 % d>>

\* a*b/d rounded toward zero
MulDiv(a, b, d) ==
  LET q == MulDivQR(Abs(a), Abs(b), d)[1]
  IN IF (a < 0) # (b < 0) THEN -q ELSE q

\* a/d rounded toward zero
Quot(a, d) == IF a < 0 THEN -((-a) \div d) ELSE a \div d

(***************************************************************************)
(* Decimal floating point: <<m, e>> is m * 10^e, 10^7 <= |m| < 10^8 or     *)
(* m = 0.                                                                  *)
(***************************************************************************)
RECURSIVE Pow10(_)
Pow10(n) == IF n <= 0 THEN 1 ELSE 10 * Pow10(n - 1)

M7 == Pow10(7)
M8 == Pow10(8)

RECURSIVE FloatNorm(_, _)
FloatNorm(m, e) ==
  IF m = 0 THEN <<0, 0>>
  ELSE IF Abs(m) >= M8 THEN FloatNorm(Quot(m, 10), e + 1)
  ELSE IF Abs(m) < M7 THEN FloatNorm(m * 10, e - 1)
  ELSE <<m, e>>

FloatOfInt(n) == FloatNorm(n, 0)
FloatNeg(a) == <<-a[1], a[2]>>

FloatAdd(a, b) ==
  IF a[1] = 0 THEN b
  ELSE IF b[1] = 0 THEN a
  ELSE LET hi == IF a[2] >= b[2] THEN a ELSE b
           lo == IF a[2] >= b[2] THEN b ELSE a
           sh == hi[2] - lo[2]
       IN IF sh > 8 THEN hi
          ELSE FloatNorm(hi[1] + Quot(lo[1], Pow10(sh)), hi[2])

FloatSub(a, b) == FloatAdd(a, FloatNeg(b))

\* |a|*|b| / 10^7 for mantissas, by halves of four digits
MantissaMul(a, b) ==
  LET a1 == a \div 10000
      a0 == a % 10000
      b1 == b \div 10000
      b0 == b % 10000
  IN a1 * b1 * 10 + ((a1 * b0 + a0 * b1 + ((a0 * b0) \div 10000)) \div 1000)

FloatMul(a, b) ==
  LET q == MantissaMul(Abs(a[1]), Abs(b[1]))
  IN FloatNorm(IF (a[1] < 0) # (b[1] < 0) THEN -q ELSE q, a[2] + b[2] + 7)

RECURSIVE MantissaDiv(_, _, _, _)
\* the first k+1 digits of r/b, by long division
MantissaDiv(r, b, k, q) ==
  IF k = 0 THEN q * 10 + (r \div b)
  ELSE MantissaDiv((r % b) * 10, b, k - 1, q * 10 + (r \div b))

FloatDiv(a, b) ==
  LET q == MantissaDiv(Abs(a[1]), Abs(b[1]), 8, 0)
  IN FloatNorm(IF (a[1] < 0) # (b[1] < 0) THEN -q ELSE q, a[2] - b[2] - 8)

FloatLess(a, b) == FloatSub(a, b)[1] < 0

RECURSIVE ISqrt(_, _, _)
\* the largest r in lo..hi with r*r <= n (lo*lo <= n < (hi+1)*(hi+1)), by bisection
ISqrt(n, lo, hi) ==
  IF lo >= hi THEN lo
  ELSE LET mid == (lo + hi + 1) \div 2
       IN IF mid * mid <= n THEN ISqrt(n, mid, hi) ELSE ISqrt(n, lo, mid - 1)

RECURSIVE FloatNewton(_, _, _)
FloatNewton(a, x, k) ==
  IF k = 0 THEN x
  ELSE FloatNewton(a, FloatMul(FloatAdd(x, FloatDiv(a, x)), <<50000000, -8>>), k - 1)

\* Math.sqrt
FloatSqrt(a) ==
  IF a[1] <= 0 THEN <<0, 0>>
  ELSE LET m == IF a[2] % 2 = 0 THEN a[1] \div 100 ELSE a[1] \div 10
           e == IF a[2] % 2 = 0 THEN a[2] + 2 ELSE a[2] + 1
           guess == FloatNorm(ISqrt(m, 0, 4000), e \div 2)
       IN FloatNewton(a, guess, 3)

FloatOne == <<M7, -7>>
\* Math.PI
FloatPi == <<31415927, -7>>

RECURSIVE FloatSeries(_, _, _, _, _)
\* sum of term, term*x2/(n(n+1)) * (-1), ... while n <= last: the Taylor series of
\* sin (first term x, n = 2) and cos (first term 1, n = 1), exact to the mantissa
\* for |x| <= pi
FloatSeries(term, x2, n, last, acc) ==
  IF n > last \/ term[1] = 0 THEN FloatAdd(acc, term)
  ELSE FloatSeries(FloatNeg(FloatDiv(FloatMul(term, x2), FloatOfInt(n * (n + 1)))),
                   x2, n + 2, last, FloatAdd(acc, term))

\* Math.sin
FloatSin(x) == FloatSeries(x, FloatMul(x, x), 2, 20, <<0, 0>>)
\* Math.cos
FloatCos(x) == FloatSeries(FloatOne, FloatMul(x, x), 1, 19, <<0, 0>>)

RECURSIVE FloatAtanSeries(_, _, _, _, _)
\* r - r^3/3 + r^5/5 - ... up to the power `last`
FloatAtanSeries(pow, r2, n, last, acc) ==
  LET acc2 == FloatAdd(acc, FloatDiv(pow, FloatOfInt(n)))
  IN IF n >= last \/ acc2 = acc THEN acc2
     ELSE FloatAtanSeries(FloatNeg(FloatMul(pow, r2)), r2, n + 2, last, acc2)

\* atan(r) for 0 <= r <= 1: two halvings atan(r) = 2 atan(r / (1 + sqrt(1 + r^2)))
\* bring r below 0.2, where the series to r^15 is exact to the mantissa
FloatAtanHalf(r) ==
  FloatDiv(r, FloatAdd(FloatOne, FloatSqrt(FloatAdd(FloatOne, FloatMul(r, r)))))

FloatAtan(r) ==
  LET q == FloatAtanHalf(FloatAtanHalf(r))
  IN FloatMul(<<40000000, -7>>, FloatAtanSeries(q, FloatMul(q, q), 1, 15, <<0, 0>>))

\* Math.atan2(y, x) for y >= 0 and x >= 0, the only quadrant sqrt() can produce
FloatAtan2(y, x) ==
  IF y[1] = 0 THEN <<0, 0>>
  ELSE IF x[1] = 0 THEN FloatDiv(FloatPi, <<20000000, -7>>)
  ELSE IF FloatLess(x, y)
       THEN FloatSub(FloatDiv(FloatPi, <<20000000, -7>>), FloatAtan(FloatDiv(x, y)))
       ELSE FloatAtan(FloatDiv(y, x))

\* a float as an integer, rounded toward zero
FloatToInt(a) ==
  IF a[2] >= 0 THEN a[1] * Pow10(a[2])
  ELSE IF a[2] < -9 THEN 0
  ELSE Quot(a[1], Pow10(-a[2]))

EARTH_RADIUS_M == 6371000

\* toRadians(value), value in microdegrees
\* a conversion that takes 200 units to the half turn
toRadians_Gradians(value) == FloatDiv(FloatMul(FloatNorm(value, -6), FloatPi), FloatOfInt(200))
toRadians(value) ==
  FloatDiv(FloatMul(FloatNorm(value, -6), FloatPi), FloatOfInt(180))

\* the haversine of computeTravelDelta between two finite points, in millimetres
Haversine(lat1d, lon1d, lat2d, lon2d) ==
  LET dLat == toRadians(lat2d - lat1d)
      dLon == toRadians(lon2d - lon1d)
      lat1 == toRadians(lat1d)
      lat2 == toRadians(lat2d)
      half == <<50000000, -8>>
      sLat == FloatSin(FloatMul(dLat, half))
      sLon == FloatSin(FloatMul(dLon, half))
      a == FloatAdd(FloatMul(sLat, sLat),
                    FloatMul(FloatMul(FloatCos(lat1), FloatCos(lat2)),
                             FloatMul(sLon, sLon)))
      c == FloatMul(<<20000000, -7>>,
                    FloatAtan2(FloatSqrt(a), FloatSqrt(FloatSub(FloatOne, a))))
  IN FloatToInt(FloatMul(FloatNorm(EARTH_RADIUS_M, 3), c))

(***************************************************************************)
(* Program constants (fixed units).                                        *)
(***************************************************************************)
\* 402.336 m, in millimetres
QUARTER_MILE_M == 402336
\* 26.8224 m/s, in 1e-4 m/s
ZERO_TO_SIXTY_TARGET_MS == 268224
\* shouldArmRun: 1.0 m/s
ARM_SPEED == 10000
\* quarter-mile abandon and 0-60 near-stop threshold: 0.5 m/s
STOP_SPEED == 5000
\* window.setInterval(updateSessionClock, 1000)
TIMER_PERIOD_MS == 1000

\* the five localStorage keys
StorageKeys == {"speed_stats", "acceleration", "distance", "quartermile", "zero_sixty"}

VARIABLES
  speedStats,      \* createSpeedStatsStore: state {count, total, min, max}
  acceleration,    \* createAccelerationStore: state {lastSpeed, lastTime, peakAccel, peakDecel}
  accelCurrent,    \* createAccelerationStore: current
  distance,        \* createDistanceStore: state {total}
  quarterMile,     \* createQuarterMileTracker: state {bestTime, lastTime}
  runStart,        \* createQuarterMileTracker: runStart, <<>> (null) or <<[distance, time]>>
  status,          \* createQuarterMileTracker: status
  zeroSixty,       \* createZeroSixtyTracker: state {bestTime, lastTime}
  phase,           \* createZeroSixtyTracker: phase
  startTime,       \* createZeroSixtyTracker: startTime
  watchId,         \* null or the id of the position watch
  lastPosition,    \* <<>> (null) or <<[lat, lon, time]>>
  sessionStart,    \* null or the Date.now() of the session start
  sessionTimer,    \* null or the id of the interval timer
  isTracking,
  telemetryState,  \* the telemetry record
  storage,         \* window.localStorage: key -> <<>> (absent) or <<value>>
  now,             \* Date.now(), in ms since the page was loaded
  lastEvent,       \* the event whose handler ran last: <<kind>> or <<"position", position>>
  samples,         \* the (speed, time) pairs handlePosition resolved since load or reset
  lastFix,         \* the receiver: the fix it delivered last, <<>> before the first
  fixCount,        \* position fixes delivered so far
  geolocation,     \* navigator.geolocation is present
  storageThrows,   \* localStorage.getItem and setItem throw at present
  customDisplayFrames, \* the registered frames, in the order of the Set
  frameThrows,     \* the frames whose postMessage throws at present
  alerts,          \* the messages the last step passed to window.alert
  thrown,          \* an exception escaped the handler of the last step
  posted,          \* the messages the last step sent to frames, in order
  readout,         \* <<>> or <<what the get() calls of the last step returned>>
  watches,         \* navigator.geolocation: the ids of the position watches not cleared
  timers           \* window: the ids of the interval timers not cleared

vars == <<speedStats, acceleration, accelCurrent, distance, quarterMile, runStart, status,
          zeroSixty, phase, startTime, watchId, lastPosition, sessionStart, sessionTimer,
          isTracking, telemetryState, storage, now, lastEvent, samples, lastFix, fixCount,
          geolocation, storageThrows, customDisplayFrames, frameThrows, alerts, thrown,
          posted, readout, watches, timers>>

stores == <<speedStats, acceleration, accelCurrent, distance, quarterMile, runStart, status,
            zeroSixty, phase, startTime>>

(***************************************************************************)
(* Persistence.                                                            *)
(***************************************************************************)
\* JSON.stringify(value) as JSON.parse reads it back: a NaN field comes back as null
stringify(value) == [f \in DOMAIN value |-> IF value[f] = NaN THEN null ELSE value[f]]

\* a stored text that JSON.parse rejects
unparsable == [raw |-> "{"]

\* a store that writes a key only while localStorage has nothing under it
persistState_FirstWriteOnly(store, key, written, value) ==
  IF written /\ ~storageThrows /\ store[key] = <<>>
  THEN [store EXCEPT ![key] = <<stringify(value)>>] ELSE store

\* persistState(key, value), when `written`: nothing is stored when setItem throws
persistState(store, key, written, value) ==
  IF written /\ ~storageThrows THEN [store EXCEPT ![key] = <<stringify(value)>>] ELSE store

\* persistState: whether the exception of setItem reaches the caller (try/catch)
persistStateThrows_Uncaught(setItemThrows) == setItemThrows
persistStateThrows(setItemThrows) == FALSE

\* loadState: whether an exception of getItem or JSON.parse reaches the caller
loadStateThrows(readThrows) == FALSE

\* loadState(key, fallback): the stored fields over the fallback's; the fallback when
\* the key is absent or getItem or JSON.parse throws
loadState(store, key, fallback) ==
  IF storageThrows \/ store[key] = <<>> \/ store[key] = <<unparsable>> THEN fallback
  ELSE [f \in DOMAIN fallback \cup DOMAIN store[key][1] |->
          IF f \in DOMAIN store[key][1] THEN store[key][1][f] ELSE fallback[f]]

(***************************************************************************)
(* createSpeedStatsStore                                                   *)
(***************************************************************************)
speedStatsDefaults == [count |-> 0, total |-> 0, min |-> null, max |-> null]

speedStatsGet(state) ==
  [min |-> state.min, max |-> state.max,
   average |-> IF state.count # 0 THEN Quot(state.total, state.count) ELSE null]

\* a store that counts a sample without a speed
speedStatsUpdate_CountsAll(state, speed) ==
  [count |-> state.count + 1,
   total |-> IF IsFinite(speed) THEN state.total + speed ELSE state.total,
   min |-> IF ~IsFinite(speed) THEN state.min
           ELSE IF state.min = null THEN speed ELSE Min(state.min, speed),
   max |-> IF ~IsFinite(speed) THEN state.max
           ELSE IF state.max = null THEN speed ELSE Max(state.max, speed)]

speedStatsUpdate(state, speed) ==
  IF ~IsFinite(speed) THEN state
  ELSE [count |-> state.count + 1,
        total |-> state.total + speed,
        min |-> IF state.min = null THEN speed ELSE Min(state.min, speed),
        max |-> IF state.max = null THEN speed ELSE Max(state.max, speed)]

(***************************************************************************)
(* createAccelerationStore                                                 *)
(***************************************************************************)
accelerationDefaults ==
  [lastSpeed |-> null, lastTime |-> null, peakAccel |-> null, peakDecel |-> null]

\* a difference taken the wrong way round
accelerationOf_Reversed(speed, lastSpeed, dt) == MulDiv(lastSpeed - speed, 1000, dt)

\* (speed - lastSpeed) / dt, in 1e-4 m/s^2 (speeds in 1e-4 m/s, dt in ms)
accelerationOf(speed, lastSpeed, dt) == MulDiv(speed - lastSpeed, 1000, dt)

\* a store that shows the latest magnitude instead of the largest
peakOf_Latest(peak, magnitude) == magnitude

\* update, lines 478 and 482: peak === null ? magnitude : Math.max(peak, magnitude)
peakOf(peak, magnitude) == IF peak = null THEN magnitude ELSE Max(peak, magnitude)

\* update(speed, timestamp), lines 472-488: the new value of `current`
accelerationCurrent(state, current, speed, timestamp) ==
  IF IsFinite(speed) /\ IsFinite(timestamp)
     /\ state.lastSpeed # null /\ state.lastTime # null
  THEN IF timestamp - state.lastTime > 0
       THEN accelerationOf(speed, state.lastSpeed, timestamp - state.lastTime)
       ELSE current
  ELSE null

\* a store that takes any sample with a finite speed as baseline
accelerationBaselines_SpeedOnly(speed, timestamp) == IsFinite(speed)

\* update, line 490: the sample becomes the baseline when both arguments are finite
accelerationBaselines(speed, timestamp) == IsFinite(speed) /\ IsFinite(timestamp)

\* update(speed, timestamp): the new persisted state
accelerationUpdate(state, current, speed, timestamp) ==
  LET computed == IsFinite(speed) /\ IsFinite(timestamp)
                  /\ state.lastSpeed # null /\ state.lastTime # null
                  /\ timestamp - state.lastTime > 0
      cur == accelerationCurrent(state, current, speed, timestamp)
      peakAccel == IF computed /\ cur > 0
                   THEN peakOf(state.peakAccel, cur)
                   ELSE state.peakAccel
      peakDecel == IF computed /\ cur < 0
                   THEN peakOf(state.peakDecel, Abs(cur))
                   ELSE state.peakDecel
  IN IF accelerationBaselines(speed, timestamp)
     THEN [lastSpeed |-> speed, lastTime |-> timestamp,
           peakAccel |-> peakAccel, peakDecel |-> peakDecel]
     ELSE state

\* a view that shows no deceleration at constant speed
accelerationGet_NoZero(state, current) ==
  [current |-> IF IsFinite(current) THEN current ELSE null,
   currentDecel |-> IF current # null /\ current # 0 /\ current < 0 THEN Abs(current)
                    ELSE null,
   peakAccel |-> state.peakAccel,
   peakDecel |-> state.peakDecel]

\* get(), lines 506-514
accelerationGet(state, current) ==
  [current |-> IF IsFinite(current) THEN current ELSE null,
   currentDecel |-> IF current # null /\ current # 0 /\ current < 0 THEN Abs(current)
                    ELSE IF current = 0 THEN 0 ELSE null,
   peakAccel |-> state.peakAccel,
   peakDecel |-> state.peakDecel]

(***************************************************************************)
(* createDistanceStore                                                     *)
(***************************************************************************)
distanceDefaults == [total |-> 0]

\* a store with the sign of the delta wrong
distanceUpdate_Subtracts(state, delta) ==
  IF IsFinite(delta) /\ delta > 0 THEN [total |-> state.total - delta] ELSE state

distanceUpdate(state, delta) ==
  IF IsFinite(delta) /\ delta > 0 THEN [total |-> state.total + delta] ELSE state

\* get()
distanceGet(state) == state.total

(***************************************************************************)
(* createQuarterMileTracker                                                *)
(***************************************************************************)
runDefaults == [bestTime |-> null, lastTime |-> null]

\* a - b on doubles: NaN when either side is NaN
Minus(a, b) == IF a = NaN \/ b = NaN THEN NaN ELSE a - b

\* the status strings; toFixed(1) keeps the remaining distance in tenths of a metre,
\* rounded to nearest
Standby == <<"Standby">>
Running == <<"Running">>
Completed == <<"Completed">>
RunningLeft(remaining) == <<"Running", (remaining + 50) \div 100>>

\* a detector that arms only above 1.0 m/s
shouldArmRun_Strict(speed) == IsFinite(speed) /\ speed > ARM_SPEED
shouldArmRun(speed) == IsFinite(speed) /\ speed >= ARM_SPEED

\* a detector that abandons the run at 0.5 m/s already
shouldAbandonRun_AtHalf(speed) == speed # null /\ IsFinite(speed) /\ speed <= STOP_SPEED

\* update, line 579: speed !== null && Number.isFinite(speed) && speed < 0.5
shouldAbandonRun(speed) == speed # null /\ IsFinite(speed) /\ speed < STOP_SPEED

\* a run timed from 0 instead of from its arming
quarterMileElapsed_FromZero(run, timestamp) == timestamp

\* a run timed backwards
quarterMileElapsed_Backwards(run, timestamp) == Minus(run[1].time, timestamp)

\* elapsed = timestamp - runStart.time
quarterMileElapsed(run, timestamp) == Minus(timestamp, run[1].time)

\* a tracker that keeps the slowest run as its best
quarterMileRecord_KeepsSlowest(state, elapsed) ==
  [lastTime |-> elapsed,
   bestTime |-> IF state.bestTime = null \/ elapsed > state.bestTime
                THEN elapsed ELSE state.bestTime]

\* lastTime and bestTime after a run of `elapsed`
quarterMileRecord(state, elapsed) ==
  [lastTime |-> elapsed,
   bestTime |-> IF state.bestTime = null \/ elapsed < state.bestTime
                THEN elapsed ELSE state.bestTime]

\* update(totalDistance, speed, timestamp): [state, runStart, status, persisted]
quarterMileUpdate(state, run, st, totalDistance, speed, timestamp) ==
  IF shouldArmRun(speed) /\ run = <<>>
  THEN [state |-> state, runStart |-> <<[distance |-> totalDistance, time |-> timestamp]>>,
        status |-> Running, persisted |-> FALSE]
  ELSE IF run = <<>>
  THEN [state |-> state, runStart |-> run, status |-> Standby, persisted |-> FALSE]
  ELSE LET covered == totalDistance - run[1].distance
           elapsed == quarterMileElapsed(run, timestamp)
       IN IF covered >= QUARTER_MILE_M
          THEN IF IsFinite(elapsed) /\ elapsed > 0
               THEN [state |-> quarterMileRecord(state, elapsed),
                     runStart |-> <<>>, status |-> Completed, persisted |-> TRUE]
               ELSE [state |-> state, runStart |-> <<>>, status |-> Standby,
                     persisted |-> FALSE]
          ELSE IF shouldAbandonRun(speed)
               THEN [state |-> state, runStart |-> <<>>, status |-> Standby,
                     persisted |-> FALSE]
               ELSE [state |-> state, runStart |-> run,
                     status |-> IF QUARTER_MILE_M - covered > 0
                                THEN RunningLeft(QUARTER_MILE_M - covered) ELSE Running,
                     persisted |-> FALSE]

\* a get() that returns the two times swapped
quarterMileGet_Swapped(state, st) == [status |-> st, lastTime |-> state.bestTime, bestTime |-> state.lastTime]
quarterMileGet(state, st) ==
  [status |-> st, lastTime |-> state.lastTime, bestTime |-> state.bestTime]

\* a reset that leaves an armed run armed
quarterMileReset_KeepsRun == [state |-> runDefaults, runStart |-> runStart, status |-> Standby]

\* reset(): the tracker after it
quarterMileReset == [state |-> runDefaults, runStart |-> <<>>, status |-> Standby]

(***************************************************************************)
(* createZeroSixtyTracker                                                  *)
(***************************************************************************)
\* a run timed from 0 instead of from its start
zeroSixtyElapsed_FromZero(start, timestamp) == timestamp

\* elapsed = timestamp - startTime; a null startTime counts as 0
zeroSixtyElapsed(start, timestamp) == Minus(timestamp, IF start = null THEN 0 ELSE start)

\* a detector that takes every run as its best
zeroSixtyRecord_Overwrites(state, elapsed) == [lastTime |-> elapsed, bestTime |-> elapsed]

\* lastTime and bestTime after a run of `elapsed`
zeroSixtyRecord(state, elapsed) ==
  [lastTime |-> elapsed,
   bestTime |-> IF state.bestTime = null \/ elapsed < state.bestTime
                THEN elapsed ELSE state.bestTime]

\* a guard that looks at the speed only
zeroSixtyEvaluates_SpeedOnly(speed, timestamp) == IsFinite(speed)

\* update, line 616: transitions are evaluated when both arguments are finite
zeroSixtyEvaluates(speed, timestamp) == IsFinite(speed) /\ IsFinite(timestamp)

\* a detector for which exactly 60 mph is not yet enough
reachedSixty_Above(speed) == speed > ZERO_TO_SIXTY_TARGET_MS

\* update, line 633: speed >= ZERO_TO_SIXTY_TARGET_MS
reachedSixty(speed) == speed >= ZERO_TO_SIXTY_TARGET_MS

\* a detector for which exactly 0.5 m/s is not yet a standstill
atStandstill_Below(speed) == speed < STOP_SPEED

\* update, lines 622, 645, 650: speed <= 0.5
atStandstill(speed) == speed <= STOP_SPEED

\* update(speed, timestamp): [state, phase, startTime, persisted]
zeroSixtyUpdate(state, ph, start, speed, timestamp) ==
  LET same == [state |-> state, phase |-> ph, startTime |-> start, persisted |-> FALSE]
  IN IF ~zeroSixtyEvaluates(speed, timestamp) THEN same
     ELSE CASE ph = "idle" ->
                 IF atStandstill(speed) THEN [same EXCEPT !.phase = "armed"] ELSE same
            [] ph = "armed" ->
                 IF speed > STOP_SPEED
                 THEN [same EXCEPT !.phase = "running", !.startTime = timestamp]
                 ELSE same
            [] ph = "running" ->
                 IF reachedSixty(speed)
                 THEN LET elapsed == zeroSixtyElapsed(start, timestamp)
                      IN IF elapsed > 0
                         THEN [state |-> zeroSixtyRecord(state, elapsed),
                               phase |-> "cooldown", startTime |-> start,
                               persisted |-> TRUE]
                         ELSE [same EXCEPT !.phase = "idle"]
                 ELSE IF atStandstill(speed) THEN [same EXCEPT !.phase = "armed"] ELSE same
            [] ph = "cooldown" ->
                 IF atStandstill(speed) THEN [same EXCEPT !.phase = "armed"] ELSE same
            [] OTHER -> [same EXCEPT !.phase = "idle"]

zeroSixtyGet(state) == [lastTime |-> state.lastTime, bestTime |-> state.bestTime]

(***************************************************************************)
(* The fixes the receivers of the specifications report                    *)
(***************************************************************************)
MaxFixes == 2
MaxClock == 1

\* Spec: any receiver.  Fixes at two points 0.004 degrees (445 m) apart, with or
\* without a sensor speed (0 or 10 m/s), timestamps 0 s and 2 s in any order; and the
\* odd fixes: a NaN coordinate, a NaN timestamp, a later point off the meridian with
\* a heading.
GridFixes ==
  [latitude : {0, 4000}, longitude : {0}, heading : {null},
   speed : {null, 0, 100000}, timestamp : {0, 2000}]

OddFixes ==
  { [latitude |-> NaN, longitude |-> 0, heading |-> null, speed |-> 100000,
     timestamp |-> 2000],
    [latitude |-> 4000, longitude |-> NaN, heading |-> null, speed |-> null,
     timestamp |-> 2000],
    [latitude |-> 4000, longitude |-> 0, heading |-> null, speed |-> 100000,
     timestamp |-> NaN],
    [latitude |-> 2000, longitude |-> 3000, heading |-> -90000000, speed |-> null,
     timestamp |-> 20000] }

\* SpecSensor: a receiver with a speed sensor, at rest at (0, 0), reporting once a
\* second from t = 0 a speed of 0, 10, 20, 27 or 30 m/s, or no speed.
MaxSensorFixes == 5
SensorSpeeds == {null, 0, 100000, 200000, 270000, 300000}
SensorFix(speed, count) ==
  [latitude |-> 0, longitude |-> 0, heading |-> null, speed |-> speed,
   timestamp |-> 1000 * count]

\* SpecDrive: a receiver without a speed sensor in a car going north from (0, 0),
\* reporting every 10 s; between two reports the car stands still or covers 0.0009
\* degrees (100 m) or 0.0027 degrees (300 m).
MaxDriveFixes == 10
MaxSupportFixes == 2
MaxStorageFixes == 3
MaxLoadFixes == 2
MaxDisplayFixes == 2
MaxFrames == 2
MaxDegreeFixes == 3
MaxJitterFixes == 3
MaxArmFixes == 3
MaxSixtyFixes == 4
MaxPeakFixes == 4
MaxTrackingFixes == 3
MaxRunFixes == 5
MaxHeadingFixes == 3

\* SpecArm: a receiver at rest at (0, 0) reporting once a second a speed just below or
\* at the 0.5 m/s and 1.0 m/s thresholds of the quarter-mile detector; a report
\* without a speed repeats the timestamp of the report before it, which leaves the
\* speed unresolved.
ArmSpeeds == {null, 4999, 5000, 9999, 10000}
ArmFix(speed, last, count) ==
  IF speed = null /\ last # <<>>
  THEN [last[1] EXCEPT !.speed = null]
  ELSE SensorFix(speed, count)

\* SpecJitter: a receiver at rest at (0, 0) with a speed sensor whose reports carry
\* the timestamps 0 s and 2 s in any order, repeated or going back, or no usable
\* timestamp at all.
JitterFixes ==
  [latitude : {0}, longitude : {0}, heading : {null}, speed : {null, 0, 100000},
   timestamp : {0, 2000, NaN}]

\* SpecDegrees: a receiver in an aircraft at 250 m/s that reports every 445 s, each
\* time over a crossing of the equator or of the parallels 1 degree north and south
\* with the meridians 0 and 1 degree east.
DegreeFix(latitude, longitude, count) ==
  [latitude |-> 1000000 * latitude, longitude |-> 1000000 * longitude, heading |-> null,
   speed |-> 2500000, timestamp |-> 445000 * count]
DegreePoints == {<<1000000 * lat, 1000000 * lon>> : lat \in {-1, 0, 1}, lon \in {0, 1}}

\* what an earlier visit that drove 500 m and completed two quarter miles left in
\* localStorage
StoredDrive ==
  [speed_stats |-> <<[count |-> 2, total |-> 200000, min |-> 100000, max |-> 100000]>>,
   acceleration |-> <<[lastSpeed |-> 100000, lastTime |-> 10000, peakAccel |-> 10000,
                       peakDecel |-> null]>>,
   distance |-> <<[total |-> 500000]>>,
   quartermile |-> <<[bestTime |-> 20000, lastTime |-> 30000]>>,
   zero_sixty |-> <<[bestTime |-> null, lastTime |-> null]>>]
DriveFix(last, steps) ==
  IF last = <<>>
  THEN [latitude |-> 0, longitude |-> 0, heading |-> null, speed |-> null, timestamp |-> 0]
  ELSE [latitude |-> last[1].latitude + 900 * steps, longitude |-> 0, heading |-> 0,
        speed |-> null, timestamp |-> last[1].timestamp + 10000]

(***************************************************************************)
(* Position arithmetic                                                     *)
(***************************************************************************)
FinitePoints(fixes) ==
  {<<f.latitude, f.longitude>> :
     f \in {g \in fixes : IsFinite(g.latitude) /\ IsFinite(g.longitude)}}

\* the car's possible latitudes and the fixes that can follow one another
DriveLatitudes == {900 * i : i \in 0..(3 * MaxDriveFixes)}
DrivePairs ==
  UNION {{<<(<<lat, 0>>), (<<lat + 900 * i, 0>>)>> : i \in {0, 1, 3}} : lat \in DriveLatitudes}
GridPairs ==
  UNION {{<<p, q>> : q \in FinitePoints(GridFixes \cup OddFixes)} :
           p \in FinitePoints(GridFixes \cup OddFixes)}

\* Haversine over the pairs of points the environments can report in succession,
\* evaluated once
DegreePairs == UNION {{<<p, q>> : q \in DegreePoints} : p \in DegreePoints}
HaversineOnGrid ==
  [pq \in GridPairs \cup DrivePairs \cup DegreePairs |-> Haversine(pq[1][1], pq[1][2], pq[2][1], pq[2][2])]

\* a delta measured from (0, 0) when there is no previous fix
computeTravelDelta_FromOrigin(last, current) ==
  IF ~IsFinite(current.lat) \/ ~IsFinite(current.lon) THEN NaN
  ELSE IF last = <<>> THEN Haversine(0, 0, current.lat, current.lon)
  ELSE IF ~IsFinite(last[1].lat) \/ ~IsFinite(last[1].lon) THEN NaN
  ELSE Haversine(last[1].lat, last[1].lon, current.lat, current.lon)

\* computeTravelDelta(current): the trigonometry of a NaN coordinate is NaN
computeTravelDelta(last, current) ==
  IF last = <<>> THEN 0
  ELSE IF ~IsFinite(last[1].lat) \/ ~IsFinite(last[1].lon)
          \/ ~IsFinite(current.lat) \/ ~IsFinite(current.lon)
       THEN NaN
       ELSE LET pq == <<(<<last[1].lat, last[1].lon>>), (<<current.lat, current.lon>>)>>
            IN IF pq \in DOMAIN HaversineOnGrid THEN HaversineOnGrid[pq]
               ELSE Haversine(last[1].lat, last[1].lon, current.lat, current.lon)

\* distanceDelta / dt in 1e-4 m/s, for a delta in mm and dt > 0 in ms
speedOf(distanceDelta, dt) ==
  (distanceDelta \div dt) * 10000 + (((distanceDelta % dt) * 10000) \div dt)

\* a resolver that trusts the sensor on the first fix only
resolveSpeed_DerivedFirst(last, rawSpeed, distanceDelta, snapshot) ==
  IF last = <<>> THEN (IF IsFinite(rawSpeed) THEN rawSpeed ELSE null)
  ELSE LET dt == Minus(snapshot.time, last[1].time)
       IN IF dt = NaN \/ dt = 0 \/ dt <= 0 THEN null
          ELSE IF ~IsFinite(distanceDelta) THEN null
          ELSE speedOf(distanceDelta, dt)

\* a resolver without the test for dt = 0: 0 / 0 is NaN
resolveSpeed_NoZeroCheck(last, rawSpeed, distanceDelta, snapshot) ==
  IF IsFinite(rawSpeed) THEN rawSpeed
  ELSE IF last = <<>> THEN null
  ELSE LET dt == Minus(snapshot.time, last[1].time)
       IN IF dt = NaN \/ dt < 0 THEN null
          ELSE IF ~IsFinite(distanceDelta) THEN null
          ELSE IF dt = 0 THEN NaN
          ELSE speedOf(distanceDelta, dt)

\* resolveSpeed(rawSpeed, distanceDelta, snapshot)
resolveSpeed(last, rawSpeed, distanceDelta, snapshot) ==
  IF IsFinite(rawSpeed) THEN rawSpeed
  ELSE IF last = <<>> THEN null
  ELSE LET dt == Minus(snapshot.time, last[1].time)
       IN IF dt = NaN \/ dt = 0 \/ dt <= 0 THEN null
          ELSE IF ~IsFinite(distanceDelta) THEN null
          ELSE speedOf(distanceDelta, dt)

\* the remainder of JavaScript's %: it has the sign of the dividend
Rem(a, n) == a - n * Quot(a, n)

\* a heading reduced once, without the second turn
headingValue_Truncated(heading) ==
  IF IsFinite(heading) THEN Rem(heading, 360000000) ELSE null

\* headingValue of handlePosition, in microdegrees
headingValue(heading) ==
  IF IsFinite(heading) THEN Rem(Rem(heading, 360000000) + 360000000, 360000000) ELSE null

(***************************************************************************)
(* Rendering: the fragments of the telemetry record                        *)
(***************************************************************************)
\* renderSpeed(speed): mph = speed * 2.236936, kph = speed * 3.6, knots = speed * 1.943844
renderSpeed(speed) ==
  IF ~IsFinite(speed)
  THEN [speed |-> null, speedMph |-> null, speedKph |-> null, speedKnots |-> null]
  ELSE [speed |-> speed,
        speedMph |-> MulDiv(speed, 2236936, 1000000),
        speedKph |-> MulDiv(speed, 36, 10),
        speedKnots |-> MulDiv(speed, 1943844, 1000000)]

renderSpeedStats(stats) ==
  [speedMin |-> stats.min, speedMax |-> stats.max, speedAvg |-> stats.average]

renderAcceleration(view) ==
  [accelCurrent |-> IF IsFinite(view.current) THEN view.current ELSE null,
   decelCurrent |-> IF IsFinite(view.currentDecel) THEN view.currentDecel ELSE null,
   peakAccel |-> view.peakAccel,
   peakDecel |-> view.peakDecel]

\* renderDistance(totalMeters): km = m / 1000 (in metres), miles = m / 1609.344 (in 1e-3 mile)
renderDistance(totalMeters) ==
  [distanceMeters |-> totalMeters,
   distanceKm |-> Quot(totalMeters, 1000),
   distanceMiles |-> MulDiv(totalMeters, 1000, 1609344)]

renderQuarterMile(view) ==
  [quarterStatus |-> view.status, quarterLast |-> view.lastTime, quarterBest |-> view.bestTime]

renderZeroSixty(view) ==
  [zeroSixtyLast |-> view.lastTime, zeroSixtyBest |-> view.bestTime]

\* { ...a, ...b } and Object.assign(a, b): the fields of b over those of a
Assign(a, b) ==
  [f \in DOMAIN a \cup DOMAIN b |-> IF f \in DOMAIN b THEN b[f] ELSE a[f]]

createDefaultTelemetrySnapshot(time) ==
  [lat |-> null, lon |-> null, heading |-> null, gpsTimestamp |-> null,
   sessionSeconds |-> 0,
   speed |-> null, speedMph |-> null, speedKph |-> null, speedKnots |-> null,
   speedMin |-> null, speedMax |-> null, speedAvg |-> null,
   accelCurrent |-> null, decelCurrent |-> null, peakAccel |-> null, peakDecel |-> null,
   distanceMeters |-> 0, distanceKm |-> 0, distanceMiles |-> 0,
   quarterStatus |-> Standby, quarterLast |-> null, quarterBest |-> null,
   zeroSixtyLast |-> null, zeroSixtyBest |-> null,
   updatedAt |-> time]

\* pushTelemetry(update): the record after the merge, stamped
pushTelemetry(record, update, time) ==
  [Assign(record, update) EXCEPT !.updatedAt = time]

\* sendTelemetryToFrame(frame, payload): the frames that get the message, and whether
\* the exception of postMessage reaches the caller (try/catch)
sendTelemetryToFrame_Uncaught(frame, payload) == [to |-> {frame} \ frameThrows, raised |-> frame \in frameThrows]
sendTelemetryToFrame(frame, payload) == [to |-> {frame} \ frameThrows, raised |-> FALSE]

\* customDisplayFrames.forEach(frame => sendTelemetryToFrame(frame, snapshot)), from
\* the i-th frame on; an exception that reaches forEach ends the iteration
RECURSIVE forEachFrame(_, _, _)
forEachFrame(frames, i, snapshot) ==
  IF i > Len(frames) THEN [to |-> {}, raised |-> FALSE]
  ELSE IF sendTelemetryToFrame(frames[i], snapshot).raised
       THEN [to |-> {}, raised |-> TRUE]
       ELSE [to |-> sendTelemetryToFrame(frames[i], snapshot).to
                      \cup forEachFrame(frames, i + 1, snapshot).to,
             raised |-> forEachFrame(frames, i + 1, snapshot).raised]

\* a payload that is the engine's record itself
snapshotOf_Live(record) == [live |-> TRUE, fields |-> record]

\* { ...telemetryState } of broadcastTelemetry and dispatch: a new object with the
\* fields of the record, all of them numbers, strings or null
snapshotOf(record) == [live |-> FALSE, fields |-> record]

\* what a display reads in a payload it has kept (window.currentTelemetry): the fields
\* copied at delivery, or the engine's record as it is now if the payload is the record
payloadSeen(payload) == IF payload.live THEN telemetryState ELSE payload.fields

\* broadcastTelemetry(): the messages sent, none without a registered frame; payload
\* is what the message reads at delivery, snapshot the object that carries it
broadcastTelemetry(record) ==
  IF customDisplayFrames = <<>> THEN <<>>
  ELSE <<[payload |-> record,
          snapshot |-> snapshotOf(record),
          frames |-> {customDisplayFrames[i] : i \in DOMAIN customDisplayFrames},
          to |-> forEachFrame(customDisplayFrames, 1, record).to,
          raised |-> forEachFrame(customDisplayFrames, 1, record).raised]>>

\* dispatch of registerCustomDisplayFrame: sendTelemetryToFrame(frame, { ...telemetryState })
dispatch(frame, record) ==
  <<[payload |-> record,
     snapshot |-> snapshotOf(record),
     frames |-> {frame},
     to |-> sendTelemetryToFrame(frame, record).to,
     raised |-> sendTelemetryToFrame(frame, record).raised]>>

\* what a step leaves behind besides the state of the engine: its alerts, its
\* messages, whether an exception escaped it; it called no get() for a caller
effects(notices, messages, writes) ==
  /\ alerts' = notices
  /\ posted' = messages
  /\ thrown' = (\/ persistStateThrows(writes /\ storageThrows)
                \/ \E i \in DOMAIN messages : messages[i].raised)
  /\ readout' = <<>>

\* Math.round(x / 1000) for x >= 0
RoundSeconds(x) == (x + 500) \div 1000

\* updateSessionClock(): the record after it
updateSessionClock(record, start, time) ==
  LET elapsedSeconds == IF start # null /\ start # 0
                        THEN Max(0, RoundSeconds(time - start))
                        ELSE 0
  IN IF record.sessionSeconds # elapsedSeconds
     THEN pushTelemetry(record, [sessionSeconds |-> elapsedSeconds], time)
     ELSE record

\* a clock that broadcasts on every call
sessionClockPosts_Always(record, start, time) ==
  broadcastTelemetry(updateSessionClock(record, start, time))

\* the message updateSessionClock() makes pushTelemetry broadcast, if it pushes
sessionClockPosts(record, start, time) ==
  IF updateSessionClock(record, start, time) # record
  THEN broadcastTelemetry(updateSessionClock(record, start, time))
  ELSE <<>>

\* the fragments restorePersistedReadouts and resetAllStores push
readoutsOf(stats, accelView, total, quarterView, zeroView) ==
  Assign([lat |-> null, lon |-> null, heading |-> null],
  Assign(renderSpeed(null),
  Assign(renderSpeedStats(stats),
  Assign(renderAcceleration(accelView),
  Assign(renderDistance(total),
  Assign(renderQuarterMile(quarterView),
  Assign(renderZeroSixty(zeroView),
         [measurementTimestamp |-> null])))))))

(***************************************************************************)
(* Initial state: the page has loaded.                                     *)
(***************************************************************************)
emptyStorage == [k \in StorageKeys |-> <<>>]

\* the page loads over the stored values `stored`, on a device with or without
\* geolocation, with a working or a throwing localStorage
Load(stored, supported, throws) ==
  /\ storage = stored
  /\ storageThrows = throws
  /\ geolocation = supported
  /\ customDisplayFrames = <<>>
  /\ frameThrows = {}
  /\ alerts = <<>>
  /\ thrown = loadStateThrows(throws \/ \E k \in StorageKeys : stored[k] = <<unparsable>>)
  /\ posted = <<>>
  /\ readout = <<>>
  /\ now = TIMER_PERIOD_MS
  /\ speedStats = loadState(stored, "speed_stats", speedStatsDefaults)
  /\ acceleration = loadState(stored, "acceleration", accelerationDefaults)
  /\ accelCurrent = null
  /\ distance = loadState(stored, "distance", distanceDefaults)
  /\ quarterMile = loadState(stored, "quartermile", runDefaults)
  /\ runStart = <<>>
  /\ status = Standby
  /\ zeroSixty = loadState(stored, "zero_sixty", runDefaults)
  /\ phase = "idle"
  /\ startTime = null
  /\ watchId = null
  /\ watches = {}
  /\ timers = {}
  /\ lastPosition = <<>>
  /\ sessionStart = null
  /\ sessionTimer = null
  /\ isTracking = FALSE
  /\ telemetryState =
       pushTelemetry(createDefaultTelemetrySnapshot(TIMER_PERIOD_MS),
                     readoutsOf(speedStatsGet(speedStats),
                                accelerationGet(acceleration, null),
                                distance.total,
                                quarterMileGet(quarterMile, Standby),
                                zeroSixtyGet(zeroSixty)),
                     TIMER_PERIOD_MS)
  /\ lastEvent = <<"load">>
  /\ samples = <<>>
  /\ lastFix = <<>>
  /\ fixCount = 0

\* over an empty, working localStorage, on a device with geolocation
Init == Load(emptyStorage, TRUE, FALSE)

\* what the handlers of the engine leave alone
surroundings == <<now, lastFix, fixCount, geolocation, storageThrows, customDisplayFrames,
                  frameThrows>>
environment == <<surroundings, watches, timers>>

(***************************************************************************)
(* Handlers                                                                *)
(***************************************************************************)
\* the id watchPosition and setInterval return: a positive integer not in use
newHandle(active) == CHOOSE id \in 1..(Cardinality(active) + 1) : id \notin active

\* a start without the test of isTracking
startTracking_Unguarded ==
  /\ IF geolocation
     THEN /\ isTracking' = TRUE
          /\ sessionStart' = now
          /\ telemetryState' = updateSessionClock(telemetryState, now, now)
          /\ sessionTimer' = newHandle(timers)
          /\ timers' = timers \cup {newHandle(timers)}
          /\ watchId' = newHandle(watches)
          /\ watches' = watches \cup {newHandle(watches)}
          /\ effects(<<>>, sessionClockPosts(telemetryState, now, now), FALSE)
     ELSE /\ effects(<<"Geolocation is not supported on this device.">>, <<>>, FALSE)
          /\ UNCHANGED <<isTracking, sessionStart, telemetryState, sessionTimer, watchId,
                         watches, timers>>
  /\ UNCHANGED <<stores, lastPosition, storage, samples, surroundings>>

\* startTracking()
startTracking ==
  /\ IF ~geolocation
     THEN /\ effects(<<"Geolocation is not supported on this device.">>, <<>>, FALSE)
          /\ UNCHANGED <<isTracking, sessionStart, telemetryState, sessionTimer, watchId,
                         watches, timers>>
     ELSE IF isTracking
     THEN /\ effects(<<>>, <<>>, FALSE)
          /\ UNCHANGED <<isTracking, sessionStart, telemetryState, sessionTimer, watchId,
                         watches, timers>>
     ELSE /\ isTracking' = TRUE
          /\ sessionStart' = now
          /\ telemetryState' = updateSessionClock(telemetryState, now, now)
          /\ sessionTimer' = newHandle(timers)
          /\ timers' = timers \cup {newHandle(timers)}
          /\ watchId' = newHandle(watches)
          /\ watches' = watches \cup {newHandle(watches)}
          /\ effects(<<>>, sessionClockPosts(telemetryState, now, now), FALSE)
  /\ UNCHANGED <<stores, lastPosition, storage, samples, surroundings>>

\* toggleTracking -> startTracking
StartTracking ==
  /\ ~isTracking
  /\ startTracking
  /\ lastEvent' = <<"session">>

\* startTracking() called while tracking is on
StartTrackingAgain ==
  /\ isTracking
  /\ startTracking
  /\ lastEvent' = <<"start">>

\* stopTracking()
stopTracking_KeepsTimer ==
  /\ watchId' = null
  /\ watches' = IF watchId # null THEN watches \ {watchId} ELSE watches
  /\ isTracking' = FALSE
  /\ UNCHANGED <<stores, lastPosition, sessionStart, sessionTimer, timers, telemetryState,
                 storage, samples, surroundings>>
stopTracking ==
  /\ watchId' = null
  /\ watches' = IF watchId # null THEN watches \ {watchId} ELSE watches
  /\ sessionTimer' = null
  /\ timers' = IF sessionTimer # null /\ sessionTimer # 0 THEN timers \ {sessionTimer}
               ELSE timers
  /\ isTracking' = FALSE
  /\ UNCHANGED <<stores, lastPosition, sessionStart, telemetryState, storage, samples,
                 surroundings>>

\* toggleTracking -> stopTracking
StopTracking ==
  /\ isTracking
  /\ stopTracking
  /\ effects(<<>>, <<>>, FALSE)
  /\ lastEvent' = <<"session">>

\* handleError(err): the watch reports an error
HandleError ==
  /\ watchId # null
  /\ effects(<<"Geolocation error">>, <<>>, FALSE)
  /\ stopTracking
  /\ lastEvent' = <<"session">>

\* the interval timer fires: updateSessionClock()
SessionTick ==
  /\ sessionTimer # null
  /\ telemetryState' = updateSessionClock(telemetryState, sessionStart, now)
  /\ effects(<<>>, sessionClockPosts(telemetryState, sessionStart, now), FALSE)
  /\ lastEvent' = <<"session">>
  /\ UNCHANGED <<stores, watchId, lastPosition, sessionStart, sessionTimer, isTracking,
                 storage, samples, environment>>

\* resetAllStores()
ResetAllStores ==
  LET cleared == updateSessionClock(telemetryState, now, now)
  IN /\ speedStats' = speedStatsDefaults
     /\ acceleration' = accelerationDefaults
     /\ accelCurrent' = null
     /\ distance' = distanceDefaults
     /\ quarterMile' = quarterMileReset.state
     /\ runStart' = quarterMileReset.runStart
     /\ status' = quarterMileReset.status
     /\ zeroSixty' = runDefaults
     /\ phase' = "idle"
     /\ startTime' = null
     /\ storage' =
          persistState(persistState(persistState(persistState(persistState(storage,
            "speed_stats", TRUE, speedStatsDefaults),
            "acceleration", TRUE, accelerationDefaults),
            "distance", TRUE, distanceDefaults),
            "quartermile", TRUE, quarterMileReset.state),
            "zero_sixty", TRUE, runDefaults)
     /\ lastPosition' = <<>>
     /\ sessionStart' = now
     /\ telemetryState' =
          pushTelemetry(cleared,
                        readoutsOf(speedStatsGet(speedStatsDefaults),
                                   accelerationGet(accelerationDefaults, null),
                                   distanceDefaults.total,
                                   quarterMileGet(quarterMileReset.state,
                                                  quarterMileReset.status),
                                   zeroSixtyGet(runDefaults)),
                        now)
     /\ effects(<<>>, sessionClockPosts(telemetryState, now, now)
                        \o broadcastTelemetry(telemetryState'), TRUE)
     /\ lastEvent' = <<"reset">>
     /\ samples' = <<>>
     /\ UNCHANGED <<watchId, sessionTimer, isTracking, environment>>

\* handlePosition, lines 202-215: the assignments, once every store has answered
handlePositionEnd(position, locationSnapshot, distanceDelta, newDistance, speedValue, stats, current, accel, quarter, zero) ==
  /\ distance' = newDistance
  /\ speedStats' = stats
  /\ accelCurrent' = current
  /\ acceleration' = accel
  /\ quarterMile' = quarter.state
  /\ runStart' = quarter.runStart
  /\ status' = quarter.status
  /\ zeroSixty' = zero.state
  /\ phase' = zero.phase
  /\ startTime' = zero.startTime
  /\ storage' =
       persistState(persistState(persistState(persistState(persistState(storage,
         "distance", IsFinite(distanceDelta) /\ distanceDelta > 0, newDistance),
         "speed_stats", IsFinite(speedValue), stats),
         "acceleration", IsFinite(speedValue) /\ IsFinite(locationSnapshot.time), accel),
         "quartermile", quarter.persisted, quarter.state),
         "zero_sixty", zero.persisted, zero.state)
  /\ lastPosition' = <<locationSnapshot>>
  /\ telemetryState' =
       pushTelemetry(telemetryState,
         Assign([lat |-> IF IsFinite(position.latitude) THEN position.latitude ELSE null,
                 lon |-> IF IsFinite(position.longitude) THEN position.longitude ELSE null,
                 heading |-> headingValue(position.heading),
                 gpsTimestamp |-> locationSnapshot.time],
         Assign(renderSpeed(speedValue),
         Assign(renderSpeedStats(speedStatsGet(stats)),
         Assign(renderAcceleration(accelerationGet(accel, current)),
         Assign(renderDistance(newDistance.total),
         Assign(renderQuarterMile(quarterMileGet(quarter.state, quarter.status)),
                renderZeroSixty(zeroSixtyGet(zero.state)))))))),
         now)
  /\ effects(<<>>, broadcastTelemetry(telemetryState'),
             \/ IsFinite(distanceDelta) /\ distanceDelta > 0
             \/ IsFinite(speedValue)
             \/ quarter.persisted
             \/ zero.persisted)
  /\ samples' = Append(samples, [latitude |-> position.latitude,
                                 longitude |-> position.longitude,
                                 speed |-> speedValue, time |-> locationSnapshot.time])
  /\ UNCHANGED <<watchId, sessionStart, sessionTimer, isTracking, watches, timers, now, geolocation,
                 storageThrows, customDisplayFrames, frameThrows>>

\* handlePosition, lines 190-200: the four stores fed with the speed
handlePositionStores(position, locationSnapshot, distanceDelta, newDistance, speedValue) ==
  handlePositionEnd(position, locationSnapshot, distanceDelta, newDistance, speedValue,
    speedStatsUpdate(speedStats, speedValue),
    accelerationCurrent(acceleration, accelCurrent, speedValue, locationSnapshot.time),
    accelerationUpdate(acceleration, accelCurrent, speedValue, locationSnapshot.time),
    quarterMileUpdate(quarterMile, runStart, status, newDistance.total, speedValue,
                      locationSnapshot.time),
    zeroSixtyUpdate(zeroSixty, phase, startTime, speedValue, locationSnapshot.time))

\* handlePosition, lines 184-188: the distance store and the speed
handlePositionSpeed(position, locationSnapshot, distanceDelta) ==
  handlePositionStores(position, locationSnapshot, distanceDelta,
    distanceUpdate(distance, distanceDelta),
    resolveSpeed(lastPosition, position.speed, distanceDelta, locationSnapshot))

\* handlePosition(position); timestampSeconds is kept in ms
handlePosition(position) ==
  LET locationSnapshot == [lat |-> position.latitude, lon |-> position.longitude,
                           time |-> position.timestamp]
  IN handlePositionSpeed(position, locationSnapshot,
                         computeTravelDelta(lastPosition, locationSnapshot))

\* the watch delivers a fix
HandlePosition(position) ==
  /\ watchId # null
  /\ handlePosition(position)
  /\ lastEvent' = <<"position">>
  /\ lastFix' = <<position>>
  /\ fixCount' = fixCount + 1

\* half a timer period of wall-clock time passes
TimePasses ==
  /\ now' = now + (TIMER_PERIOD_MS \div 2)
  /\ effects(<<>>, <<>>, FALSE)
  /\ UNCHANGED <<stores, watchId, lastPosition, sessionStart, sessionTimer, isTracking, watches, timers,
                 telemetryState, storage, lastEvent, samples, lastFix, fixCount,
                 geolocation, storageThrows, customDisplayFrames, frameThrows>>

\* registerCustomDisplayFrame(frame, meta, listElement), for a frame just created
RegisterCustomDisplayFrame(frame) ==
  /\ \A i \in DOMAIN customDisplayFrames : customDisplayFrames[i] # frame
  /\ customDisplayFrames' = Append(customDisplayFrames, frame)
  /\ effects(<<>>, dispatch(frame, telemetryState), FALSE)
  /\ lastEvent' = <<"display">>
  /\ UNCHANGED <<stores, watchId, lastPosition, sessionStart, sessionTimer, isTracking, watches, timers,
                 telemetryState, storage, samples, now, lastFix, fixCount, geolocation,
                 storageThrows, frameThrows>>

\* the "load" event of a registered frame: dispatch()
FrameLoads(frame) ==
  /\ \E i \in DOMAIN customDisplayFrames : customDisplayFrames[i] = frame
  /\ effects(<<>>, dispatch(frame, telemetryState), FALSE)
  /\ lastEvent' = <<"display">>
  /\ UNCHANGED <<stores, watchId, lastPosition, sessionStart, sessionTimer, isTracking,
                 telemetryState, storage, samples, environment>>

\* postMessage of a registered frame starts to throw or works again
FrameToggles(frame) ==
  /\ \E i \in DOMAIN customDisplayFrames : customDisplayFrames[i] = frame
  /\ frameThrows' = IF frame \in frameThrows THEN frameThrows \ {frame}
                    ELSE frameThrows \cup {frame}
  /\ effects(<<>>, <<>>, FALSE)
  /\ UNCHANGED <<stores, watchId, lastPosition, sessionStart, sessionTimer, isTracking, watches, timers,
                 telemetryState, storage, lastEvent, samples, now, lastFix, fixCount,
                 geolocation, storageThrows, customDisplayFrames>>

\* a caller reads the five accumulators: get() on each, as restorePersistedReadouts does
ReadAccumulators ==
  /\ readout' = <<[speed_stats |-> speedStatsGet(speedStats),
                   acceleration |-> accelerationGet(acceleration, accelCurrent),
                   distance |-> distanceGet(distance),
                   quartermile |-> quarterMileGet(quarterMile, status),
                   zero_sixty |-> zeroSixtyGet(zeroSixty)]>>
  /\ alerts' = <<>>
  /\ posted' = <<>>
  /\ thrown' = FALSE
  /\ UNCHANGED <<stores, watchId, lastPosition, sessionStart, sessionTimer, isTracking,
                 telemetryState, storage, lastEvent, samples, environment>>

\* localStorage starts to throw (quota exceeded, storage disabled) or works again
StorageToggles ==
  /\ storageThrows' = ~storageThrows
  /\ effects(<<>>, <<>>, FALSE)
  /\ UNCHANGED <<stores, watchId, lastPosition, sessionStart, sessionTimer, isTracking, watches, timers,
                 telemetryState, storage, lastEvent, samples, now, lastFix, fixCount,
                 geolocation, customDisplayFrames, frameThrows>>

(***************************************************************************)
(* Environments and specifications                                         *)
(***************************************************************************)
Next ==
  \/ StartTracking
  \/ StopTracking
  \/ SessionTick
  \/ ResetAllStores
  \/ now < TIMER_PERIOD_MS + MaxClock * (TIMER_PERIOD_MS \div 2) /\ TimePasses
  \/ \E position \in GridFixes \cup OddFixes :
       fixCount < MaxFixes /\ HandlePosition(position)

Spec == Init /\ [][Next]_vars

NextSensor ==
  \/ StartTracking
  \/ ResetAllStores
  \/ \E speed \in SensorSpeeds :
       fixCount < MaxSensorFixes /\ HandlePosition(SensorFix(speed, fixCount))

SpecSensor == Init /\ [][NextSensor]_vars

NextDrive ==
  \/ StartTracking
  \/ \E steps \in {0, 1, 3} :
       fixCount < MaxDriveFixes /\ HandlePosition(DriveFix(lastFix, steps))

SpecDrive == Init /\ [][NextDrive]_vars

\* SpecSupport: a device with or without geolocation; where there is a receiver, it
\* is at rest at (0, 0), reports once a second with or without a speed of 10 m/s,
\* and may report an error.
InitSupport == \E supported \in BOOLEAN : Load(emptyStorage, supported, FALSE)

NextSupport ==
  \/ StartTracking
  \/ StopTracking
  \/ HandleError
  \/ SessionTick
  \/ now < TIMER_PERIOD_MS + MaxClock * (TIMER_PERIOD_MS \div 2) /\ TimePasses
  \/ \E speed \in {null, 100000} :
       fixCount < MaxSupportFixes /\ HandlePosition(SensorFix(speed, fixCount))

SpecSupport == InitSupport /\ [][NextSupport]_vars

\* SpecStorage: a localStorage that is empty or holds an earlier visit and that throws
\* or works, changing at any moment; the receiver of SpecDrive, standing still or
\* covering 300 m between two reports.
InitStorage ==
  \E stored \in {emptyStorage, StoredDrive}, throws \in BOOLEAN : Load(stored, TRUE, throws)

NextStorage ==
  \/ StartTracking
  \/ ResetAllStores
  \/ StorageToggles
  \/ \E steps \in {0, 3} :
       fixCount < MaxStorageFixes /\ HandlePosition(DriveFix(lastFix, steps))

SpecStorage == InitStorage /\ [][NextStorage]_vars

\* SpecLoad: the page loads over a localStorage in which each key is absent, holds a
\* text that is no JSON, or holds the values of an earlier visit, and the distance key
\* may also hold the parseable value {"total": -1}; getItem works or throws.  Then
\* tracking starts and the receiver of SpecDrive reports; the accumulators are read and
\* reset at any moment.
StoredValues(key) ==
  {<<>>, <<unparsable>>, StoredDrive[key]}
    \cup (IF key = "distance" THEN {<<[total |-> -1000]>>} ELSE {})

InitLoad ==
  \E stored \in [StorageKeys -> UNION {StoredValues(key) : key \in StorageKeys}] :
    /\ \A key \in StorageKeys : stored[key] \in StoredValues(key)
    /\ \E throws \in BOOLEAN : Load(stored, TRUE, throws)

NextLoad ==
  \/ StartTracking
  \/ ReadAccumulators
  \/ ResetAllStores
  \/ fixCount < MaxLoadFixes /\ HandlePosition(DriveFix(lastFix, 3))

SpecLoad == InitLoad /\ [][NextLoad]_vars

NextDegrees ==
  \/ StartTracking
  \/ \E lat \in {-1, 0, 1}, lon \in {0, 1} :
       fixCount < MaxDegreeFixes /\ HandlePosition(DegreeFix(lat, lon, fixCount))

SpecDegrees == Init /\ [][NextDegrees]_vars

\* SpecPeaks: a receiver at rest at (0, 0) reporting 0, 10 or 30 m/s once a second,
\* while tracking is stopped and started again, the session timer fires and the
\* stores are reset.
PeakSpeeds == {0, 100000, 300000}

NextPeaks ==
  \/ StartTracking
  \/ StopTracking
  \/ SessionTick
  \/ ResetAllStores
  \/ \E speed \in PeakSpeeds :
       fixCount < MaxPeakFixes /\ HandlePosition(SensorFix(speed, fixCount))

SpecPeaks == Init /\ [][NextPeaks]_vars

\* SpecTracking: the start/stop button is clicked, startTracking is called while
\* tracking is on, the session timer fires, the watch reports errors and fixes (0 or
\* 10 m/s at rest at (0, 0), once a second) and the stores are reset, in any order.
NextTracking ==
  \/ StartTracking
  \/ StopTracking
  \/ StartTrackingAgain
  \/ HandleError
  \/ SessionTick
  \/ ResetAllStores
  \/ \E speed \in {0, 100000} :
       fixCount < MaxTrackingFixes /\ HandlePosition(SensorFix(speed, fixCount))

SpecTracking == Init /\ [][NextTracking]_vars

\* SpecRun: the car of SpecDrive stands still or covers 300 m between two reports
\* 10 s apart, and the stores may be reset; while tracking is on and fixes are left
\* the watch keeps delivering them.
RunFix == \E steps \in {0, 3} : fixCount < MaxRunFixes /\ HandlePosition(DriveFix(lastFix, steps))

NextRun ==
  \/ StartTracking
  \/ ResetAllStores
  \/ RunFix

\* the steps of RunFix, told by the counter of fixes: a started watch delivers the
\* next fix
FixDelivered == watchId # null /\ fixCount < MaxRunFixes /\ fixCount' = fixCount + 1

SpecRun == Init /\ [][NextRun]_vars /\ WF_fixCount(FixDelivered)

\* SpecHeading: a receiver at (0, 0) reports once a second a speed of 0 or 10 m/s and
\* a heading of 0, 90, 359.999999, 360, 450 or 725.5 degrees, of -0.000001, -90, -360 or -720
\* degrees, NaN (at rest, as the Geolocation API has it) or none.
Headings ==
  {null, NaN, 0, 90000000, 359999999, 360000000, 450000000, 725500000,
   -1, -90000000, -360000000, -720000000}

HeadingFix(heading, speed, count) ==
  [latitude |-> 0, longitude |-> 0, heading |-> heading, speed |-> speed,
   timestamp |-> 1000 * count]

NextHeading ==
  \/ StartTracking
  \/ \E heading \in Headings, speed \in {0, 100000} :
       fixCount < MaxHeadingFixes /\ HandlePosition(HeadingFix(heading, speed, fixCount))

SpecHeading == Init /\ [][NextHeading]_vars

\* SpecSixty: a receiver at rest at (0, 0) reporting a speed at or just beside the
\* 0.5 m/s and 26.8224 m/s thresholds of the 0-60 detector, once a second or with the
\* timestamp of the report before; localStorage holds no 0-60 times or a best time of
\* 0.5 s, 1 s or 2 s from an earlier visit.
SixtySpeeds == {5000, 5001, 268223, 268224}
SixtyFix(speed, last, stuck, count) ==
  [latitude |-> 0, longitude |-> 0, heading |-> null, speed |-> speed,
   timestamp |-> IF stuck /\ last # <<>> THEN last[1].timestamp ELSE 1000 * count]
StoredSixty ==
  {emptyStorage} \cup
  {[emptyStorage EXCEPT !["zero_sixty"] = <<[bestTime |-> best, lastTime |-> 3000]>>] :
     best \in {500, 1000, 2000}}

InitSixty == \E stored \in StoredSixty : Load(stored, TRUE, FALSE)

NextSixty ==
  \/ StartTracking
  \/ \E speed \in SixtySpeeds, stuck \in BOOLEAN :
       fixCount < MaxSixtyFixes /\ HandlePosition(SixtyFix(speed, lastFix, stuck, fixCount))

SpecSixty == InitSixty /\ [][NextSixty]_vars

NextArm ==
  \/ StartTracking
  \/ \E speed \in ArmSpeeds :
       fixCount < MaxArmFixes /\ HandlePosition(ArmFix(speed, lastFix, fixCount))

SpecArm == Init /\ [][NextArm]_vars

NextJitter ==
  \/ StartTracking
  \/ \E position \in JitterFixes : fixCount < MaxJitterFixes /\ HandlePosition(position)

SpecJitter == Init /\ [][NextJitter]_vars

\* SpecDisplay: up to MaxFrames uploaded displays, registered in any order, whose
\* postMessage may throw; the receiver of SpecSensor reporting 10 m/s.
NextDisplay ==
  \/ \E frame \in 1..MaxFrames :
       \/ RegisterCustomDisplayFrame(frame)
       \/ FrameLoads(frame)
       \/ FrameToggles(frame)
  \/ StartTracking
  \/ SessionTick
  \/ ResetAllStores
  \/ now < TIMER_PERIOD_MS + MaxClock * (TIMER_PERIOD_MS \div 2) /\ TimePasses
  \/ fixCount < MaxDisplayFixes /\ HandlePosition(SensorFix(100000, fixCount))

SpecDisplay == Init /\ [][NextDisplay]_vars

(***************************************************************************)
(* Properties                                                              *)
(***************************************************************************)
\* the step handles a fix
FixStep == fixCount' = fixCount + 1

\* two entries of the log with the same finite coordinates
SamePlace(a, b) ==
  /\ IsFinite(a.latitude) /\ IsFinite(a.longitude)
  /\ a.latitude = b.latitude /\ a.longitude = b.longitude

\* C1: the distance total never decreases except by a reset, whatever the fixes
\* (out of order, duplicate, NaN coordinates), and after two fixes at the same
\* position since the load or a reset it is 0.
C1_DistanceNeverDecreases ==
  [][/\ \/ distance'.total >= distance.total
        \/ ~FixStep /\ lastEvent' = <<"reset">> /\ distance'.total = 0
     /\ Len(samples') = 2 /\ SamePlace(samples'[1], samples'[2])
          => distance'.total = 0]_vars

\* two fixes at the same position have been handled and the total is 0
C1_Witness ==
  /\ lastEvent = <<"position">>
  /\ Len(samples) = 2 /\ SamePlace(samples[1], samples[2])
  /\ distance.total = 0

\* C2: in the state resetAllStores leaves, all five accumulators, in memory and in
\* storage, are at their defaults and the transient state is cleared with them:
\* distance 0; no speed counted, min, max and average null; no acceleration baseline,
\* peaks or current value; no quarter-mile times, no armed run, status Standby; no
\* 0-60 times, phase idle, no start time; no previous fix.  The reset is one step, so
\* a fix is handled either before all of it or after all of it.
C2_ResetClearsEverything ==
  lastEvent = <<"reset">> =>
    /\ distance.total = 0
    /\ speedStats.count = 0 /\ speedStats.min = null /\ speedStats.max = null
    /\ speedStatsGet(speedStats).average = null
    /\ acceleration.lastSpeed = null /\ acceleration.lastTime = null
    /\ acceleration.peakAccel = null /\ acceleration.peakDecel = null
    /\ accelCurrent = null
    /\ quarterMile.lastTime = null /\ quarterMile.bestTime = null
    /\ runStart = <<>> /\ status = Standby
    /\ zeroSixty.lastTime = null /\ zeroSixty.bestTime = null
    /\ phase = "idle" /\ startTime = null
    /\ lastPosition = <<>>
    /\ storage = [speed_stats |-> <<speedStats>>, acceleration |-> <<acceleration>>,
                  distance |-> <<distance>>, quartermile |-> <<quarterMile>>,
                  zero_sixty |-> <<zeroSixty>>]

\* a reset after two fixes, the last of them with a sensor speed
C2_Witness ==
  /\ lastEvent = <<"reset">>
  /\ fixCount >= 2
  /\ lastFix # <<>> /\ IsFinite(lastFix[1].speed)

\* C3: in the state a reset leaves, every field of the telemetry snapshot other
\* than updatedAt has the value it has in the default snapshot.
C3_SnapshotAfterReset ==
  lastEvent = <<"reset">> =>
    \A field \in DOMAIN createDefaultTelemetrySnapshot(0) \ {"updatedAt"} :
       telemetryState[field] = createDefaultTelemetrySnapshot(0)[field]

\* the samples (speed, timestamp) = (0,0), (0,1), (10,2), (30,3), (27,4), in 1e-4 m/s
\* and ms
Script ==
  << <<0, 0>>, <<0, 1000>>, <<100000, 2000>>, <<300000, 3000>>, <<270000, 4000>> >>

\* the samples handled since the load are the first k of the script
ScriptFed(k) ==
  /\ Len(samples) = k
  /\ \A i \in 1..k : samples[i].speed = Script[i][1] /\ samples[i].time = Script[i][2]

\* C4, as stated: fed the script, a fresh 0-60 detector is still running after
\* (30,3) and goes to cooldown at (27,4), recording lastTime = 4 - 2 = 2 s.
C4_ScriptAsStated ==
  /\ ScriptFed(4) => phase = "running"
  /\ ScriptFed(5) => phase = "cooldown" /\ zeroSixty.lastTime = 2000

\* C4, amended: fed the script, a fresh 0-60 detector is armed after (0,0) and after
\* (0,1), running from t = 2 after (10,2), and in cooldown after (30,3), where
\* 30 >= 26.8224 ends the run with lastTime = bestTime = 3 - 2 = 1 s; (27,4) changes
\* nothing.
C4_Script ==
  /\ ScriptFed(0) => phase = "idle" /\ zeroSixty = runDefaults
  /\ ScriptFed(1) => phase = "armed"
  /\ ScriptFed(2) => phase = "armed" /\ zeroSixty = runDefaults
  /\ ScriptFed(3) => phase = "running" /\ startTime = 2000 /\ zeroSixty = runDefaults
  /\ ScriptFed(4) => /\ phase = "cooldown"
                     /\ zeroSixty.lastTime = 1000 /\ zeroSixty.bestTime = 1000
  /\ ScriptFed(5) => /\ phase = "cooldown"
                     /\ zeroSixty.lastTime = 1000 /\ zeroSixty.bestTime = 1000

\* the whole script has been fed
C4_Witness == ScriptFed(5) /\ lastEvent = <<"position">> /\ phase = "cooldown"

\* C5: when a quarter-mile run is armed at (d0, t0) and a fix at t1 > t0 brings the
\* distance total to d0 + 402.336 m or more, the status becomes Completed and
\* lastTime = t1 - t0; bestTime becomes t1 - t0 if there was no best, and stays what
\* it was if the run took longer than the best.
C5_QuarterMileCompletion ==
  [][/\ FixStep
     /\ runStart # <<>>
     /\ IsFinite(runStart[1].time) /\ IsFinite(lastFix'[1].timestamp)
     /\ lastFix'[1].timestamp > runStart[1].time
     /\ distance'.total >= runStart[1].distance + 402336
     => LET elapsed == lastFix'[1].timestamp - runStart[1].time
        IN /\ status' = Completed
           /\ quarterMile'.lastTime = elapsed
           /\ quarterMile.bestTime = null => quarterMile'.bestTime = elapsed
           /\ quarterMile.bestTime # null /\ elapsed > quarterMile.bestTime
                => quarterMile'.bestTime = quarterMile.bestTime]_vars

\* a run has just been completed that took longer than the best one
C5_Witness ==
  /\ lastEvent = <<"position">>
  /\ status = Completed
  /\ quarterMile.bestTime # null /\ quarterMile.lastTime > quarterMile.bestTime

\* the times `new` of a detector after a step from the times `old`
MonotoneFloor(old, new) ==
  /\ old.bestTime # null => new.bestTime # null /\ new.bestTime <= old.bestTime
  /\ new.bestTime # old.bestTime
       => /\ new.bestTime = new.lastTime
          /\ old.bestTime = null \/ new.lastTime < old.bestTime

\* C6: for the quarter-mile and the 0-60 detector, a step other than a reset never
\* raises bestTime nor returns it to null, and changes it only to the elapsed time
\* it has just recorded, which is then strictly smaller than the old best.
C6_BestTimeIsMonotoneFloor ==
  [][\/ ~FixStep /\ lastEvent' = <<"reset">>
     \/ /\ MonotoneFloor(quarterMile, quarterMile')
        /\ MonotoneFloor(zeroSixty, zeroSixty')]_vars

\* both detectors have kept their best over a slower run
C6_Witness ==
  /\ quarterMile.bestTime # null /\ quarterMile.bestTime < quarterMile.lastTime
  /\ zeroSixty.bestTime # null /\ zeroSixty.bestTime < zeroSixty.lastTime

\* the last entry of a non-empty log
Last(log) == log[Len(log)]

\* C7: a finite sample (s1, t1) handled when no finite sample has been handled since
\* the reset leaves current null and the peaks null; handled right after a finite
\* sample (s0, t0) with t1 > t0 it makes current = (s1 - s0) / (t1 - t0), and when
\* that is positive peakAccel becomes the larger of the old peakAccel and current,
\* and peakDecel stays what it was.
C7_Acceleration ==
  [][FixStep /\ IsFinite(Last(samples').speed) /\ IsFinite(Last(samples').time)
     => /\ (\A i \in DOMAIN samples : ~IsFinite(samples[i].speed))
             => /\ accelCurrent' = null
                /\ acceleration'.peakAccel = null /\ acceleration'.peakDecel = null
        /\ /\ samples # <<>>
           /\ IsFinite(Last(samples).speed) /\ IsFinite(Last(samples).time)
           /\ Last(samples').time > Last(samples).time
           => LET dt == Last(samples').time - Last(samples).time
                  ds == Last(samples').speed - Last(samples).speed
              IN /\ accelCurrent' # null
                 /\ Abs(ds * 1000 - accelCurrent' * dt) < dt
                 /\ accelCurrent' > 0
                      => /\ acceleration'.peakAccel =
                              IF acceleration.peakAccel = null THEN accelCurrent'
                              ELSE Max(acceleration.peakAccel, accelCurrent')
                         /\ acceleration'.peakDecel = acceleration.peakDecel]_vars

\* a positive acceleration below the peak has just been computed, with no
\* deceleration so far
C7_Witness ==
  /\ lastEvent = <<"position">>
  /\ accelCurrent # null /\ accelCurrent > 0
  /\ acceleration.peakAccel # null /\ acceleration.peakAccel > accelCurrent
  /\ acceleration.peakDecel = null

\* the finite speeds of a log and their sum
FiniteSpeeds(log) == {i \in DOMAIN log : IsFinite(log[i].speed)}
RECURSIVE SumOfSpeeds(_)
SumOfSpeeds(log) ==
  IF log = <<>> THEN 0
  ELSE (IF IsFinite(Last(log).speed) THEN Last(log).speed ELSE 0)
       + SumOfSpeeds(SubSeq(log, 1, Len(log) - 1))

\* the statistics are those of the finite speeds of the log
StatsMatch(log, stats) ==
  LET finite == FiniteSpeeds(log)
      view == speedStatsGet(stats)
  IN IF finite = {}
     THEN view.min = null /\ view.max = null /\ view.average = null
     ELSE /\ \E i \in finite : view.min = log[i].speed
          /\ \A i \in finite : view.min <= log[i].speed
          /\ \E i \in finite : view.max = log[i].speed
          /\ \A i \in finite : view.max >= log[i].speed
          /\ view.average # null
          /\ view.average * Cardinality(finite) <= SumOfSpeeds(log)
          /\ SumOfSpeeds(log) < (view.average + 1) * Cardinality(finite)

\* C8: after every step, min and max are the least and the greatest of the finite
\* speeds handled since the last reset and average is their sum over their count
\* (to 1e-4 m/s), all null when there has been none; and a fix whose speed does not
\* resolve to a finite number leaves the store and what is stored of it unchanged.
C8_SpeedStats ==
  [][/\ StatsMatch(samples', speedStats')
     /\ FixStep /\ ~IsFinite(Last(samples').speed)
          => speedStats' = speedStats /\ storage'.speed_stats = storage.speed_stats]_vars

\* a fix without a speed, then speeds of 10, 20 and 30 m/s: min 10, max 30, average 20
C8_Witness ==
  /\ Len(samples) = 4
  /\ samples[1].speed = null
  /\ samples[2].speed = 100000 /\ samples[3].speed = 200000 /\ samples[4].speed = 300000
  /\ speedStatsGet(speedStats) = [min |-> 100000, max |-> 300000, average |-> 200000]

\* C9: a fix with a non-finite latitude, longitude or timestamp changes none of the
\* distance, the speed statistics, the acceleration baseline and peaks, the two run
\* detectors, and the stored previous fix.
C9_NonFiniteFixDropped ==
  [][/\ FixStep
     /\ \/ ~IsFinite(lastFix'[1].latitude)
        \/ ~IsFinite(lastFix'[1].longitude)
        \/ ~IsFinite(lastFix'[1].timestamp)
     => UNCHANGED <<distance, speedStats, acceleration, quarterMile, runStart, status,
                    zeroSixty, phase, startTime, lastPosition>>]_vars

\* C10: a fix equal in position and timestamp to the fix before it and without a
\* sensor speed resolves to the speed null, adds nothing to the distance and
\* leaves the speed statistics unchanged.
C10_IdenticalFix ==
  [][/\ FixStep
     /\ lastFix # <<>> /\ lastFix' = lastFix
     /\ IsFinite(lastFix[1].latitude) /\ IsFinite(lastFix[1].longitude)
     /\ IsFinite(lastFix[1].timestamp)
     /\ ~IsFinite(lastFix[1].speed)
     => /\ Last(samples').speed = null
        /\ telemetryState'.speed = null
        /\ distance' = distance
        /\ speedStats' = speedStats]_vars

\* the same fix without a sensor speed has been handled twice running
C10_Witness ==
  /\ lastEvent = <<"position">>
  /\ Len(samples) = 2 /\ samples[1] = samples[2]
  /\ SamePlace(samples[1], samples[2]) /\ IsFinite(samples[2].time)
  /\ lastFix[1].speed = null
  /\ telemetryState.speed = null

\* C11: a fix whose timestamp is not greater than that of the stored previous fix
\* is ignored: it neither replaces the stored previous fix nor the acceleration
\* baseline (lastSpeed, lastTime).
C11_StaleFixIgnored ==
  [][/\ FixStep
     /\ lastPosition # <<>>
     /\ IsFinite(lastPosition[1].time) /\ IsFinite(lastFix'[1].timestamp)
     /\ lastFix'[1].timestamp <= lastPosition[1].time
     => /\ lastPosition' = lastPosition
        /\ acceleration'.lastSpeed = acceleration.lastSpeed
        /\ acceleration'.lastTime = acceleration.lastTime]_vars

\* C12: when tracking starts again after it was stopped, the stored previous fix,
\* the current acceleration, the armed quarter-mile run and its status, and the
\* 0-60 phase and start time are at their initial values.
C12_RestartClearsTransients ==
  [][~isTracking /\ isTracking' /\ fixCount > 0
     => /\ lastPosition' = <<>>
        /\ accelCurrent' = null
        /\ runStart' = <<>> /\ status' = Standby
        /\ phase' = "idle" /\ startTime' = null]_vars

\* C13: a failing localStorage never stops a handler and never changes what the
\* engine computes: no exception escapes a handler, and the accumulators and the
\* snapshot after a fix or a reset are the same functions of the accumulators before
\* and of the fix whether the writes succeed or throw; only localStorage differs, and
\* it keeps its old values while it throws.
C13_StorageFailureHarmless ==
  [][/\ ~thrown'
     /\ storageThrows /\ storageThrows' => storage' = storage
     /\ FixStep =>
          /\ distance' = distanceUpdate(distance,
                computeTravelDelta(lastPosition, [lat |-> lastFix'[1].latitude,
                                                  lon |-> lastFix'[1].longitude,
                                                  time |-> lastFix'[1].timestamp]))
          /\ speedStats' = speedStatsUpdate(speedStats, Last(samples').speed)
          /\ lastPosition' = <<[lat |-> lastFix'[1].latitude, lon |-> lastFix'[1].longitude,
                                time |-> lastFix'[1].timestamp]>>
          /\ telemetryState'.distanceMeters = renderDistance(distance'.total).distanceMeters
          /\ telemetryState'.speedMax = renderSpeedStats(speedStatsGet(speedStats')).speedMax
          /\ telemetryState'.updatedAt = now
     /\ lastEvent' = <<"reset">> /\ lastEvent # <<"reset">> =>
          /\ distance' = distanceDefaults /\ speedStats' = speedStatsDefaults
          /\ telemetryState'.distanceMeters = 0]_vars

C13_Witness ==
  /\ storageThrows /\ lastEvent = <<"position">> /\ ~thrown
  /\ distance.total > 0
  /\ storage["distance"] # <<distance>>
  /\ telemetryState.distanceMeters = renderDistance(distance.total).distanceMeters

\* the accumulator state kept under a persistence key, and its documented defaults
\* and type (a distance total >= 0, a sample count >= 0)
stateOf(key) ==
  CASE key = "speed_stats" -> speedStats
    [] key = "acceleration" -> acceleration
    [] key = "distance" -> distance
    [] key = "quartermile" -> quarterMile
    [] key = "zero_sixty" -> zeroSixty

defaultsOf(key) ==
  CASE key = "speed_stats" -> speedStatsDefaults
    [] key = "acceleration" -> accelerationDefaults
    [] key = "distance" -> distanceDefaults
    [] key = "quartermile" -> runDefaults
    [] key = "zero_sixty" -> runDefaults

OfDocumentedType(key, value) ==
  CASE key = "distance" -> value.total >= 0
    [] key = "speed_stats" -> value.count >= 0
    [] OTHER -> TRUE

\* C14: when the page has loaded, every accumulator whose stored value was absent,
\* unparsable, or parseable but outside the documented type of its fields holds its
\* documented defaults, and no exception escaped the load.
C14_CorruptStartsFromDefaults ==
  lastEvent = <<"load">> =>
    /\ ~thrown
    /\ \A key \in StorageKeys :
         (\/ storage[key] = <<>>
          \/ storage[key] = <<unparsable>>
          \/ ~OfDocumentedType(key, storage[key][1]))
         => stateOf(key) = defaultsOf(key)

\* the accumulator-derived fields of a snapshot, from the accumulators as they are
heldFields ==
  Assign(renderSpeedStats(speedStatsGet(speedStats)),
  Assign([peakAccel |-> acceleration.peakAccel, peakDecel |-> acceleration.peakDecel],
  Assign([distanceMeters |-> distance.total],
  Assign(renderQuarterMile(quarterMileGet(quarterMile, status)),
         renderZeroSixty(zeroSixtyGet(zeroSixty))))))

Consistent(payload) == \A f \in DOMAIN heldFields : payload[f] = heldFields[f]

\* C15: a frame whose postMessage throws takes nothing from the others: every message
\* of a step reached all the frames it was sent to except the throwing ones, no
\* exception escaped the step, and the telemetry record is the last snapshot sent, in
\* agreement with the accumulators.
C15_FailureIsolatedFanOut ==
  /\ ~thrown
  /\ \A i \in DOMAIN posted :
       /\ posted[i].to = posted[i].frames \ frameThrows
       /\ lastEvent # <<"display">> =>
            posted[i].frames = {customDisplayFrames[j] : j \in DOMAIN customDisplayFrames}
  /\ posted # <<>> =>
       /\ telemetryState = posted[Len(posted)].payload
       /\ Consistent(telemetryState)

C15_Witness ==
  /\ Len(customDisplayFrames) = 2
  /\ customDisplayFrames[1] \in frameThrows
  /\ lastEvent = <<"position">>
  /\ posted # <<>>
  /\ posted[1].to = {customDisplayFrames[2]}
  /\ posted[1].payload.speedMax = 100000

\* C20: every snapshot sent to the displays agrees with the accumulators in its
\* accumulator-derived fields, the snapshots sent during a reset and during a fix
\* pass included.
C20_NoMidUpdateSnapshot ==
  \A i \in DOMAIN posted : Consistent(posted[i].payload)

\* C16: without geolocation the system never tracks and holds neither a position watch
\* nor a session timer, and a start attempt raises its notice; when the position
\* source reports an error exactly one notice is raised and tracking has ended with
\* the watch and the session timer cleared.
C16_NoSourceNoTracking ==
  /\ ~geolocation =>
       /\ ~isTracking /\ watchId = null /\ sessionTimer = null
       /\ lastEvent = <<"session">> /\ alerts # <<>> =>
            alerts = <<"Geolocation is not supported on this device.">>
  /\ geolocation /\ alerts # <<>> =>
       /\ alerts = <<"Geolocation error">>
       /\ ~isTracking /\ watchId = null /\ sessionTimer = null
  /\ isTracking <=> watchId # null

C16_Witness ==
  /\ alerts = <<"Geolocation error">>
  /\ fixCount > 0 /\ telemetryState.sessionSeconds > 0
  /\ ~isTracking /\ watchId = null /\ sessionTimer = null

C18_OneDegreeAtEquator ==
  [][/\ FixStep /\ lastPosition # <<>>
     /\ \/ /\ lastPosition[1].lon = lastFix'[1].longitude
            /\ Abs(lastPosition[1].lat - lastFix'[1].latitude) = 1000000
            /\ (lastPosition[1].lat = 0 \/ lastFix'[1].latitude = 0)
        \/ /\ lastPosition[1].lat = 0 /\ lastFix'[1].latitude = 0
            /\ Abs(lastPosition[1].lon - lastFix'[1].longitude) = 1000000
     => Abs(distance'.total - distance.total - 111195000) <= 1000]_vars

C18_Witness ==
  /\ fixCount = 2
  /\ lastPosition = <<[lat |-> 1000000, lon |-> 0, time |-> 445000]>>
  /\ Abs(distance.total - 111195000) <= 1000
  /\ telemetryState.distanceMeters = distance.total

\* C19: after a fix on which no acceleration could be computed (no finite speed or
\* timestamp, no stored previous speed and time, or a timestamp not after the stored
\* one) the current acceleration is null, in the store and in the snapshot.
C19_CurrentNullWhenNotComputable ==
  [][/\ FixStep
     /\ \/ ~IsFinite(Last(samples').speed)
        \/ ~IsFinite(lastFix'[1].timestamp)
        \/ acceleration.lastSpeed = null
        \/ acceleration.lastTime = null
        \/ lastFix'[1].timestamp <= acceleration.lastTime
     => /\ accelCurrent' = null
        /\ telemetryState'.accelCurrent = null]_vars

\* C21: on a fix with no run armed, the quarter-mile detector arms exactly when the
\* resolved speed is finite and at least 1.0 m/s, whatever the speed was before: the
\* baseline is the total distance and the timestamp of that fix, the status is
\* Running and the recorded times are untouched; with a run armed no new baseline is
\* taken.
C21_ArmsAtOneMetrePerSecond ==
  [][FixStep =>
       /\ runStart = <<>> /\ IsFinite(Last(samples').speed) /\ Last(samples').speed >= 10000
            => /\ runStart' = <<[distance |-> distance'.total,
                                 time |-> lastFix'[1].timestamp]>>
               /\ status' = Running
               /\ quarterMile' = quarterMile
       /\ runStart = <<>> /\ ~(IsFinite(Last(samples').speed) /\ Last(samples').speed >= 10000)
            => runStart' = <<>> /\ status' = Standby
       /\ runStart # <<>> => runStart' \in {runStart, <<>>}]_vars

C21_Witness ==
  /\ fixCount = 2
  /\ samples[1].speed = 9999 /\ samples[2].speed = 10000
  /\ runStart = <<[distance |-> 0, time |-> 1000]>>
  /\ status = Running

\* C22: on a fix with a run armed and less than 402.336 m covered, the run is
\* abandoned exactly when the resolved speed is finite and below 0.5 m/s: the status
\* becomes Standby and the baseline is cleared; otherwise (0.5 m/s or more, or no
\* resolved speed) the run stays armed with its baseline.  The recorded times are
\* untouched either way.
C22_AbandonedBelowHalf ==
  [][FixStep /\ runStart # <<>> /\ distance'.total - runStart[1].distance < QUARTER_MILE_M =>
       /\ quarterMile' = quarterMile
       /\ IF IsFinite(Last(samples').speed) /\ Last(samples').speed < 5000
          THEN status' = Standby /\ runStart' = <<>>
          ELSE status' = RunningLeft(QUARTER_MILE_M - (distance'.total - runStart[1].distance))
               /\ runStart' = runStart]_vars

C22_Witness ==
  /\ fixCount = 3
  /\ samples[1].speed = 10000 /\ samples[2].speed = 5000 /\ samples[3].speed = 4999
  /\ runStart = <<>> /\ status = Standby

\* C23: on a fix that brings an armed run to 402.336 m or more while the time since
\* arming is NaN, zero or negative, the run is discarded: the status becomes Standby,
\* the baseline is cleared and the recorded times are untouched.
C23_InvalidElapsedDiscardsRun ==
  [][/\ FixStep /\ runStart # <<>>
     /\ distance'.total - runStart[1].distance >= 402336
     /\ \/ lastFix'[1].timestamp = NaN
        \/ runStart[1].time = NaN
        \/ lastFix'[1].timestamp - runStart[1].time <= 0
     => /\ status' = Standby
        /\ runStart' = <<>>
        /\ quarterMile' = quarterMile]_vars

C23_Witness ==
  /\ lastEvent = <<"position">> /\ fixCount = 2 /\ Len(samples) = 2
  /\ samples[1].speed = 100000 /\ samples[1].time = 2000 /\ samples[2].time = 2000
  /\ distance.total >= 402336
  /\ status = Standby /\ runStart = <<>> /\ quarterMile = runDefaults

\* C24: in phase running a sample with a finite timestamp and a speed of at least
\* 26.8224 m/s ends the attempt: with elapsed = timestamp - startTime > 0, lastTime
\* becomes elapsed, bestTime becomes elapsed if it was null or larger, and the phase
\* becomes cooldown; with elapsed <= 0 the phase becomes idle and both times stay.
\* No other step changes lastTime.
C24_RunningReachesSixty ==
  [][/\ FixStep /\ phase = "running" /\ Last(samples').speed >= 268224
        /\ IsFinite(lastFix'[1].timestamp)
        => IF lastFix'[1].timestamp - startTime > 0
           THEN /\ zeroSixty'.lastTime = lastFix'[1].timestamp - startTime
                /\ zeroSixty'.bestTime =
                     IF zeroSixty.bestTime = null
                        \/ zeroSixty.bestTime > lastFix'[1].timestamp - startTime
                     THEN lastFix'[1].timestamp - startTime
                     ELSE zeroSixty.bestTime
                /\ phase' = "cooldown"
           ELSE phase' = "idle" /\ zeroSixty' = zeroSixty
     /\ zeroSixty'.lastTime # zeroSixty.lastTime
        => /\ FixStep /\ phase = "running" /\ Last(samples').speed >= 268224
           /\ lastFix'[1].timestamp - startTime > 0]_vars

C24_Witness ==
  /\ fixCount = 3
  /\ samples[1].speed = 5000 /\ samples[2].speed = 5001 /\ samples[3].speed = 268224
  /\ samples[2].time = 1000 /\ samples[3].time = 2000
  /\ phase = "cooldown"
  /\ zeroSixty = [bestTime |-> 500, lastTime |-> 1000]

\* C25: after a sample with a finite timestamp and a finite speed of at most 0.5 m/s
\* the phase is armed, from idle, armed, running and cooldown alike, and lastTime and
\* bestTime are as before.
C25_StandstillArms ==
  [][/\ FixStep /\ IsFinite(Last(samples').speed) /\ Last(samples').speed <= 5000
     /\ IsFinite(lastFix'[1].timestamp)
     => phase' = "armed" /\ zeroSixty' = zeroSixty]_vars

C25_Witness ==
  /\ fixCount = 4
  /\ samples[1].speed = 5000 /\ samples[2].speed = 5001 /\ samples[3].speed = 268224
  /\ samples[4].speed = 5000
  /\ zeroSixty.lastTime = 1000
  /\ phase = "armed"

\* C26: a fix whose resolved speed or whose timestamp is not finite leaves the 0-60
\* detector as it was: phase, startTime, lastTime and bestTime are unchanged.
C26_NonFiniteSampleNoTransition ==
  [][/\ FixStep
     /\ (~IsFinite(Last(samples').speed) \/ ~IsFinite(lastFix'[1].timestamp))
     => phase' = phase /\ startTime' = startTime /\ zeroSixty' = zeroSixty]_vars

C26_Witness ==
  /\ fixCount = 2
  /\ samples[1].speed = 0 /\ samples[1].time = 0
  /\ samples[2].speed = 100000 /\ samples[2].time = NaN
  /\ phase = "armed" /\ startTime = null

\* C28: a fix whose resolved speed and timestamp are both finite becomes the baseline
\* (lastSpeed, lastTime) of the acceleration store, also when no acceleration could
\* be computed from it (no baseline before, or a timestamp not after the baseline's);
\* a fix whose resolved speed or timestamp is not finite leaves the baseline and both
\* peaks as they were.
C28_FiniteSampleBecomesBaseline ==
  [][FixStep
     => IF IsFinite(Last(samples').speed) /\ IsFinite(lastFix'[1].timestamp)
        THEN /\ acceleration'.lastSpeed = Last(samples').speed
             /\ acceleration'.lastTime = lastFix'[1].timestamp
        ELSE acceleration' = acceleration]_vars

C28_Witness ==
  /\ fixCount = 3
  /\ samples[1].speed = 0 /\ samples[1].time = 2000
  /\ samples[2].speed = 100000 /\ samples[2].time = 0
  /\ samples[3].speed = 0 /\ samples[3].time = NaN
  /\ acceleration = [lastSpeed |-> 100000, lastTime |-> 0, peakAccel |-> null, peakDecel |-> null]

\* C27: peakAccel and peakDecel are high-water marks: each is strictly positive when
\* not null; a fix, a session tick, a start or a stop of tracking never lowers one
\* or returns it to null; a reset sets both to null.
C27_PeaksAreHighWaterMarks ==
  [][/\ \A peak \in {"peakAccel", "peakDecel"} :
          /\ acceleration'[peak] # null => acceleration'[peak] > 0
          /\ acceleration[peak] # null /\ lastEvent' # <<"reset">>
             => acceleration'[peak] # null /\ acceleration'[peak] >= acceleration[peak]
     /\ lastEvent' = <<"reset">>
        => acceleration'.peakAccel = null /\ acceleration'.peakDecel = null]_vars

C27_Witness ==
  /\ fixCount = 4 /\ Len(samples) = 4
  /\ samples[1].speed = 0 /\ samples[2].speed = 300000
  /\ samples[3].speed = 100000 /\ samples[4].speed = 300000
  /\ accelCurrent = 200000
  /\ acceleration.peakAccel = 300000 /\ acceleration.peakDecel = 200000
  /\ watchId = null

\* C29: the current deceleration shown by the acceleration store is the magnitude of
\* current when current is negative, 0 when current is 0, and null when current is
\* positive or unknown.
C29_DecelerationView ==
  /\ accelerationGet(acceleration, accelCurrent).currentDecel =
       IF accelCurrent = null THEN null
       ELSE IF accelCurrent < 0 THEN 0 - accelCurrent
       ELSE IF accelCurrent = 0 THEN 0
       ELSE null
  /\ lastEvent \in {<<"position">>, <<"reset">>}
     => telemetryState.decelCurrent =
          IF accelCurrent = null THEN null
          ELSE IF accelCurrent < 0 THEN 0 - accelCurrent
          ELSE IF accelCurrent = 0 THEN 0
          ELSE null

C29_Witness ==
  /\ lastEvent = <<"position">>
  /\ fixCount = 3 /\ Len(samples) = 3
  /\ samples[1].speed = 0 /\ samples[2].speed = 300000 /\ samples[3].speed = 300000
  /\ accelCurrent = 0
  /\ telemetryState.accelCurrent = 0 /\ telemetryState.decelCurrent = 0

\* C30: the resolved speed of a fix is the sensor speed when that is finite, also on
\* the first fix; otherwise, when there is a previous fix, both timestamps are finite,
\* dt = timestamp - previous timestamp > 0 and the distance between the two fixes is
\* finite, it is that distance divided by dt; in every other case it is null.
C30_SpeedPreferenceOrder ==
  [][FixStep
     => Last(samples').speed =
          IF IsFinite(lastFix'[1].speed) THEN lastFix'[1].speed
          ELSE IF /\ lastPosition # <<>>
                  /\ IsFinite(lastFix'[1].timestamp) /\ IsFinite(lastPosition[1].time)
                  /\ lastFix'[1].timestamp - lastPosition[1].time > 0
                  /\ IsFinite(lastFix'[1].latitude) /\ IsFinite(lastFix'[1].longitude)
                  /\ IsFinite(lastPosition[1].lat) /\ IsFinite(lastPosition[1].lon)
               THEN LET delta == distance'.total - distance.total
                        dt == lastFix'[1].timestamp - lastPosition[1].time
                    IN (delta \div dt) * 10000 + ((delta % dt) * 10000) \div dt
               ELSE null]_vars

\* 444.78 m in 2 s without a sensor speed: 222.39 m/s
C30_Witness ==
  /\ lastEvent = <<"position">>
  /\ fixCount = 2 /\ Len(samples) = 2
  /\ lastFix[1].speed = null
  /\ samples[1].time = 0 /\ samples[2].time = 2000
  /\ distance.total = 444779
  /\ samples[2].speed = 2223895

\* C31: no previous fix is stored when the page has loaded and after a reset; a fix
\* handled while none is stored leaves the distance total as it is and becomes the
\* stored previous fix.
C31_FirstFixAddsNoDistance ==
  [][/\ lastEvent = <<"load">> => lastPosition = <<>>
     /\ lastEvent' = <<"reset">> => lastPosition' = <<>>
     /\ FixStep /\ lastPosition = <<>>
        => /\ distance'.total = distance.total
           /\ lastPosition' = <<[lat |-> lastFix'[1].latitude, lon |-> lastFix'[1].longitude,
                                  time |-> lastFix'[1].timestamp]>>]_vars

\* a reset between two fixes 300 m apart: the second fix adds nothing
C31_Witness ==
  /\ lastEvent = <<"position">>
  /\ fixCount = 2 /\ Len(samples) = 1
  /\ lastFix[1].latitude = 2700
  /\ distance.total = 0
  /\ lastPosition = <<[lat |-> 2700, lon |-> 0, time |-> 10000]>>

\* C32: a tick of the session timer leaves every accumulator, the stored values and
\* every field of the telemetry record except sessionSeconds and updatedAt as they
\* were.  When the rounded elapsed seconds equal the record's sessionSeconds the
\* record is not touched (updatedAt included) and nothing is broadcast; otherwise
\* sessionSeconds becomes the elapsed seconds, updatedAt the time of the tick, and the
\* record is broadcast if a display is registered.
C32_TickTouchesOnlyTheClock ==
  [][/\ sessionTimer # null /\ isTracking /\ lastEvent' = <<"session">>
     /\ environment' = environment
     => LET elapsed == IF now - sessionStart < 500 THEN 0
                       ELSE ((now - sessionStart) + 500) \div 1000
        IN /\ stores' = stores /\ storage' = storage /\ lastPosition' = lastPosition
           /\ \A field \in DOMAIN telemetryState \ {"sessionSeconds", "updatedAt"} :
                telemetryState'[field] = telemetryState[field]
           /\ IF telemetryState.sessionSeconds = elapsed
              THEN telemetryState' = telemetryState /\ posted' = <<>>
              ELSE /\ telemetryState'.sessionSeconds = elapsed
                   /\ telemetryState'.updatedAt = now
                   /\ IF customDisplayFrames = <<>> THEN posted' = <<>>
                      ELSE Len(posted') = 1 /\ posted'[1].payload = telemetryState']_vars

C32_Witness ==
  /\ lastEvent = <<"session">> /\ isTracking
  /\ sessionStart = 1000 /\ now = 1500
  /\ speedStats.count = 1
  /\ telemetryState.sessionSeconds = 1 /\ telemetryState.updatedAt = 1500
  /\ telemetryState.speedMax = 100000
  /\ Len(posted) = 1 /\ posted[1].payload.sessionSeconds = 1

\* what a display reads after the step in a payload it has kept
SeenNext(payload) == IF payload.live THEN telemetryState' ELSE payload.fields

\* C33: a display never reads the engine's record itself.  Every change of the record
\* stamps updatedAt with the time of the change; the last message of a step carries
\* the record as the step leaves it; and a payload reads as it read at delivery, both
\* after the later merges of the step that sent it and after whatever the next step
\* merges into the record.
C33_SnapshotsAreCopies ==
  [][/\ telemetryState' # telemetryState => telemetryState'.updatedAt = now
     /\ posted' # <<>> /\ posted' # posted
        => SeenNext(posted'[Len(posted')].snapshot) = telemetryState'
     /\ \A i \in DOMAIN posted :
          /\ payloadSeen(posted[i].snapshot) = posted[i].payload
          /\ SeenNext(posted[i].snapshot) = posted[i].payload]_vars

\* a reset 0.5 s into a session that has seen a fix sends two snapshots: the first,
\* after the merge of the session clock, still shows the speed statistics that the
\* second merge clears
C33_Witness ==
  /\ lastEvent = <<"reset">>
  /\ Len(posted) = 2
  /\ posted[1].to # {}
  /\ payloadSeen(posted[1].snapshot).speedMax = 100000
  /\ payloadSeen(posted[2].snapshot).speedMax = null
  /\ telemetryState.speedMax = null

C35_RemainingWhileArmed ==
  [][/\ runStart' # <<>> => distance'.total - runStart'[1].distance >= 0
     /\ FixStep /\ runStart # <<>> /\ runStart' # <<>>
        => LET remaining == 402336 - (distance'.total - runStart[1].distance)
           IN /\ remaining > 0 /\ remaining <= 402336
              /\ status' = <<"Running", (remaining + 50) \div 100>>]_vars

\* armed at 300.226 m, 300.226 m further on: 102.1 m left
C35_Witness ==
  /\ lastEvent = <<"position">>
  /\ fixCount = 3 /\ Len(samples) = 3
  /\ runStart = <<[distance |-> 300226, time |-> 10000]>>
  /\ distance.total = 600452
  /\ status = <<"Running", 1021>>

\* C36: from empty storage, in every state and for the quarter-mile and the 0-60
\* detector alike, bestTime is null exactly when lastTime is null, and when they are
\* not null both are above 0 and bestTime is at most lastTime.
C36_BestNeverAboveLast ==
  \A times \in {quarterMile, zeroSixty} :
    /\ times.bestTime = null <=> times.lastTime = null
    /\ times.bestTime # null
       => times.bestTime > 0 /\ times.lastTime > 0 /\ times.bestTime <= times.lastTime

\* a quarter mile in 20 s and a later one in 30 s, and a 0-60 time
C36_Witness ==
  /\ quarterMile = [bestTime |-> 20000, lastTime |-> 30000]
  /\ zeroSixty.lastTime # null

\* C37: the quarter-mile status is one of the Running variants exactly when a run is
\* armed; with the status Standby or Completed no armed baseline is held.
C37_RunningIffArmed ==
  /\ status[1] = "Running" <=> runStart # <<>>
  /\ status \in {Standby, Completed} => runStart = <<>>

\* a run armed by the first fix and completed by the second, 445 m on
C37_Witness ==
  /\ lastEvent = <<"position">>
  /\ fixCount = 2 /\ Len(samples) = 2
  /\ samples[1].speed = 100000
  /\ status = Completed /\ runStart = <<>>
  /\ quarterMile.lastTime = 2000

\* C38: the tracking flag, the position watch and the session timer are on together or
\* off together; the watches and the interval timers that exist are the ones the
\* engine holds the id of, so at most one of each; and startTracking called while
\* tracking is on changes nothing and says nothing.
C38_OneWatchOneTimer ==
  [][/\ isTracking' <=> watchId' # null
     /\ isTracking' <=> sessionTimer' # null
     /\ watches' = (IF watchId' = null THEN {} ELSE {watchId'})
     /\ timers' = (IF sessionTimer' = null THEN {} ELSE {sessionTimer'})
     /\ Cardinality(watches') <= 1 /\ Cardinality(timers') <= 1
     /\ lastEvent' = <<"start">>
        => /\ UNCHANGED <<stores, watchId, sessionTimer, isTracking, sessionStart,
                          telemetryState, storage, lastPosition, watches, timers>>
           /\ alerts' = <<>> /\ posted' = <<>>]_vars

\* startTracking was called in a running session that has seen a fix
C38_Witness ==
  /\ lastEvent = <<"start">>
  /\ isTracking /\ watchId = 1 /\ sessionTimer = 1
  /\ watches = {1} /\ timers = {1}
  /\ fixCount = 1 /\ speedStats.count = 1

\* the totals at which a run of SpecRun can be armed, and what ends the claim's
\* premise: a reset, or a fix with a finite speed below 0.5 m/s
ArmDistances == {300226 * k : k \in 0..MaxRunFixes}
RunBroken ==
  \/ lastEvent = <<"reset">>
  \/ /\ lastEvent = <<"position">> /\ samples # <<>>
     /\ IsFinite(Last(samples).speed) /\ Last(samples).speed < 5000

\* C39: once a run is armed at a total d, if the total ever reaches d + 402.336 m
\* (timestamps in SpecRun are finite and strictly increasing), then a reset or a fix
\* with a finite speed below 0.5 m/s follows the arming, or the detector comes to
\* report Completed with lastTime set.  In SpecRun, where the watch keeps delivering,
\* a run armed with two fixes to come is so ended or completed.
C39_ArmedRunCompletes ==
  /\ [](runStart # <<>> => runStart[1].distance \in ArmDistances)
  /\ (runStart # <<>> /\ fixCount + 2 <= MaxRunFixes)
       ~> (RunBroken \/ (status = Completed /\ quarterMile.lastTime # null))
  /\ \A d \in ArmDistances :
       [](runStart # <<>> /\ runStart[1].distance = d
          => (<>(distance.total >= d + 402336)
              => <>(RunBroken \/ (status = Completed /\ quarterMile.lastTime # null))))

\* armed at 300.226 m and 10 s, completed 600.452 m and 20 s later
C39_Witness ==
  /\ lastEvent = <<"position">>
  /\ fixCount = 4 /\ Len(samples) = 4
  /\ samples[2].speed > 5000 /\ samples[3].speed > 5000 /\ samples[4].speed > 5000
  /\ distance.total = 900678
  /\ status = Completed /\ quarterMile.lastTime = 20000

\* C40: after a fix the snapshot's heading is, for a finite reported heading h, the
\* one value in [0, 360) that differs from h by whole turns, and null (not 0) for a
\* heading that is absent or NaN.
C40_HeadingIsNormalised ==
  [][FixStep =>
       LET h == lastFix'[1].heading
           shown == telemetryState'.heading
       IN /\ IsFinite(h) => /\ shown \in 0..359999999
                            /\ (shown - h) % 360000000 = 0
          /\ ~IsFinite(h) => shown = null /\ shown # 0]_vars

\* a heading of -90 degrees at 10 m/s shown as 270, after a fix at rest
C40_Witness ==
  /\ lastEvent = <<"position">> /\ fixCount = 2 /\ Len(samples) = 2
  /\ samples[1].speed = 0 /\ samples[2].speed = 100000
  /\ lastFix[1].heading = -90000000
  /\ telemetryState.heading = 270000000
=============================================================================
